---- MODULE Spec2Model ----
(***************************************************************************)
(* Verification model of the uiua primitive core (src/src/primitive/mod.rs) *)
(* : the primitive registry, the name resolver, the inverse table and the   *)
(* instruction dispatcher Primitive::run.                                   *)
(*                                                                          *)
(* Option<T> is modelled as a sequence of length <= 1: None is <<>> and     *)
(* Some(x) is <<x>>.  Text is a sequence of characters, each character a    *)
(* string atom; glyphs are Unicode code points.                             *)
(***************************************************************************)
EXTENDS Integers, Sequences, FiniteSets, TLC

VARIABLES
  input,   \* argument handed to the registry / name-resolver operation
  query,    \* the registry / name-resolver call made on input, with its result
  stack,   \* operand stack of the main execution unit (bottom first)
  last,    \* record of the last instruction run by the dispatcher
  next_tag,\* the process-wide NEXT_TAG counter of Primitive::Tag
  units    \* concurrent execution units running Tag

vars == <<input, query, stack, last, next_tag, units>>

None == <<>>
Some(x) == <<x>>

(***************************************************************************)
(* Primitive registry.  The variants are those of the exhaustive match of  *)
(* Primitive::run; the surface names live in defs.rs.                       *)
(***************************************************************************)
Registry ==
  <<
  [prim |-> "Eta", names |-> <<[text |-> <<"e", "t", "a">>, ascii |-> <<>>, glyph |-> <<951>>]>>],
  [prim |-> "Pi", names |-> <<[text |-> <<"p", "i">>, ascii |-> <<>>, glyph |-> <<960>>]>>],
  [prim |-> "Tau", names |-> <<[text |-> <<"t", "a", "u">>, ascii |-> <<>>, glyph |-> <<964>>]>>],
  [prim |-> "Infinity", names |-> <<[text |-> <<"i", "n", "f", "i", "n", "i", "t", "y">>, ascii |-> <<>>, glyph |-> <<8734>>]>>],
  [prim |-> "Identity", names |-> <<[text |-> <<"i", "d", "e", "n", "t", "i", "t", "y">>, ascii |-> <<>>, glyph |-> <<8728>>]>>],
  [prim |-> "Gap", names |-> <<[text |-> <<"g", "a", "p">>, ascii |-> <<>>, glyph |-> <<8901>>]>>],
  [prim |-> "Not", names |-> <<[text |-> <<"n", "o", "t">>, ascii |-> <<>>, glyph |-> <<172>>]>>],
  [prim |-> "Neg", names |-> <<[text |-> <<"n", "e", "g", "a", "t", "e">>, ascii |-> <<"Backtick">>, glyph |-> <<175>>]>>],
  [prim |-> "Abs", names |-> <<[text |-> <<"a", "b", "s", "o", "l", "u", "t", "e", " ", "v", "a", "l", "u", "e">>, ascii |-> <<>>, glyph |-> <<9013>>]>>],
  [prim |-> "Sign", names |-> <<[text |-> <<"s", "i", "g", "n">>, ascii |-> <<>>, glyph |-> <<177>>]>>],
  [prim |-> "Sqrt", names |-> <<[text |-> <<"s", "q", "r", "t">>, ascii |-> <<>>, glyph |-> <<8730>>]>>],
  [prim |-> "Sin", names |-> <<[text |-> <<"s", "i", "n", "e">>, ascii |-> <<>>, glyph |-> <<9675>>]>>],
  [prim |-> "Cos", names |-> <<>>],
  [prim |-> "Asin", names |-> <<>>],
  [prim |-> "Acos", names |-> <<>>],
  [prim |-> "Floor", names |-> <<[text |-> <<"f", "l", "o", "o", "r">>, ascii |-> <<>>, glyph |-> <<8970>>]>>],
  [prim |-> "Ceil", names |-> <<[text |-> <<"c", "e", "i", "l", "i", "n", "g">>, ascii |-> <<>>, glyph |-> <<8968>>]>>],
  [prim |-> "Round", names |-> <<[text |-> <<"r", "o", "u", "n", "d">>, ascii |-> <<>>, glyph |-> <<8261>>]>>],
  [prim |-> "Eq", names |-> <<[text |-> <<"e", "q", "u", "a", "l", "s">>, ascii |-> <<"Equal">>, glyph |-> <<61>>]>>],
  [prim |-> "Ne", names |-> <<[text |-> <<"n", "o", "t", " ", "e", "q", "u", "a", "l", "s">>, ascii |-> <<"BangEqual">>, glyph |-> <<8800>>]>>],
  [prim |-> "Lt", names |-> <<[text |-> <<"l", "e", "s", "s", " ", "t", "h", "a", "n">>, ascii |-> <<>>, glyph |-> <<60>>]>>],
  [prim |-> "Le", names |-> <<[text |-> <<"l", "e", "s", "s", " ", "o", "r", " ", "e", "q", "u", "a", "l">>, ascii |-> <<"LessEqual">>, glyph |-> <<8804>>]>>],
  [prim |-> "Gt", names |-> <<[text |-> <<"g", "r", "e", "a", "t", "e", "r", " ", "t", "h", "a", "n">>, ascii |-> <<>>, glyph |-> <<62>>]>>],
  [prim |-> "Ge", names |-> <<[text |-> <<"g", "r", "e", "a", "t", "e", "r", " ", "o", "r", " ", "e", "q", "u", "a", "l">>, ascii |-> <<"GreaterEqual">>, glyph |-> <<8805>>]>>],
  [prim |-> "Add", names |-> <<[text |-> <<"a", "d", "d">>, ascii |-> <<>>, glyph |-> <<43>>]>>],
  [prim |-> "Sub", names |-> <<[text |-> <<"s", "u", "b", "t", "r", "a", "c", "t">>, ascii |-> <<>>, glyph |-> <<45>>]>>],
  [prim |-> "Mul", names |-> <<[text |-> <<"m", "u", "l", "t", "i", "p", "l", "y">>, ascii |-> <<"Star">>, glyph |-> <<215>>]>>],
  [prim |-> "Div", names |-> <<[text |-> <<"d", "i", "v", "i", "d", "e">>, ascii |-> <<"Percent">>, glyph |-> <<247>>]>>],
  [prim |-> "Mod", names |-> <<[text |-> <<"m", "o", "d", "u", "l", "u", "s">>, ascii |-> <<>>, glyph |-> <<9727>>]>>],
  [prim |-> "Pow", names |-> <<[text |-> <<"p", "o", "w", "e", "r">>, ascii |-> <<>>, glyph |-> <<8319>>]>>],
  [prim |-> "Log", names |-> <<[text |-> <<"l", "o", "g", "a", "r", "i", "t", "h", "m">>, ascii |-> <<>>, glyph |-> <<8345>>]>>],
  [prim |-> "Min", names |-> <<[text |-> <<"m", "i", "n", "i", "m", "u", "m">>, ascii |-> <<>>, glyph |-> <<8615>>]>>],
  [prim |-> "Max", names |-> <<[text |-> <<"m", "a", "x", "i", "m", "u", "m">>, ascii |-> <<>>, glyph |-> <<8613>>]>>],
  [prim |-> "Atan", names |-> <<[text |-> <<"a", "t", "a", "n", "g", "e", "n", "t">>, ascii |-> <<>>, glyph |-> <<8736>>]>>],
  [prim |-> "Match", names |-> <<[text |-> <<"m", "a", "t", "c", "h">>, ascii |-> <<>>, glyph |-> <<8773>>]>>],
  [prim |-> "Join", names |-> <<[text |-> <<"j", "o", "i", "n">>, ascii |-> <<>>, glyph |-> <<8834>>]>>],
  [prim |-> "Transpose", names |-> <<[text |-> <<"t", "r", "a", "n", "s", "p", "o", "s", "e">>, ascii |-> <<>>, glyph |-> <<9033>>]>>],
  [prim |-> "InvTranspose", names |-> <<>>],
  [prim |-> "Keep", names |-> <<[text |-> <<"k", "e", "e", "p">>, ascii |-> <<>>, glyph |-> <<9661>>]>>],
  [prim |-> "Unkeep", names |-> <<>>],
  [prim |-> "Take", names |-> <<[text |-> <<"t", "a", "k", "e">>, ascii |-> <<>>, glyph |-> <<8601>>]>>],
  [prim |-> "Untake", names |-> <<>>],
  [prim |-> "Drop", names |-> <<[text |-> <<"d", "r", "o", "p">>, ascii |-> <<>>, glyph |-> <<8600>>]>>],
  [prim |-> "Undrop", names |-> <<>>],
  [prim |-> "Rotate", names |-> <<[text |-> <<"r", "o", "t", "a", "t", "e">>, ascii |-> <<>>, glyph |-> <<8635>>]>>],
  [prim |-> "Couple", names |-> <<[text |-> <<"c", "o", "u", "p", "l", "e">>, ascii |-> <<>>, glyph |-> <<8863>>]>>],
  [prim |-> "Uncouple", names |-> <<>>],
  [prim |-> "Rise", names |-> <<[text |-> <<"r", "i", "s", "e">>, ascii |-> <<>>, glyph |-> <<9039>>]>>],
  [prim |-> "Fall", names |-> <<[text |-> <<"f", "a", "l", "l">>, ascii |-> <<>>, glyph |-> <<9046>>]>>],
  [prim |-> "Pick", names |-> <<[text |-> <<"p", "i", "c", "k">>, ascii |-> <<>>, glyph |-> <<8865>>]>>],
  [prim |-> "Unpick", names |-> <<>>],
  [prim |-> "Select", names |-> <<[text |-> <<"s", "e", "l", "e", "c", "t">>, ascii |-> <<>>, glyph |-> <<8847>>]>>],
  [prim |-> "Unselect", names |-> <<>>],
  [prim |-> "Windows", names |-> <<[text |-> <<"w", "i", "n", "d", "o", "w", "s">>, ascii |-> <<>>, glyph |-> <<9707>>]>>],
  [prim |-> "Where", names |-> <<[text |-> <<"w", "h", "e", "r", "e">>, ascii |-> <<>>, glyph |-> <<8858>>]>>],
  [prim |-> "InvWhere", names |-> <<>>],
  [prim |-> "Classify", names |-> <<[text |-> <<"c", "l", "a", "s", "s", "i", "f", "y">>, ascii |-> <<>>, glyph |-> <<8859>>]>>],
  [prim |-> "Deduplicate", names |-> <<[text |-> <<"d", "e", "d", "u", "p", "l", "i", "c", "a", "t", "e">>, ascii |-> <<>>, glyph |-> <<8861>>]>>],
  [prim |-> "Member", names |-> <<[text |-> <<"m", "e", "m", "b", "e", "r">>, ascii |-> <<>>, glyph |-> <<8714>>]>>],
  [prim |-> "Find", names |-> <<[text |-> <<"f", "i", "n", "d">>, ascii |-> <<>>, glyph |-> <<8981>>]>>],
  [prim |-> "IndexOf", names |-> <<[text |-> <<"i", "n", "d", "e", "x", "o", "f">>, ascii |-> <<>>, glyph |-> <<8855>>]>>],
  [prim |-> "Box", names |-> <<[text |-> <<"b", "o", "x">>, ascii |-> <<>>, glyph |-> <<9633>>]>>],
  [prim |-> "Unbox", names |-> <<[text |-> <<"u", "n", "b", "o", "x">>, ascii |-> <<>>, glyph |-> <<8852>>]>>],
  [prim |-> "Call", names |-> <<[text |-> <<"c", "a", "l", "l">>, ascii |-> <<>>, glyph |-> <<33>>]>>],
  [prim |-> "Parse", names |-> <<[text |-> <<"p", "a", "r", "s", "e">>, ascii |-> <<>>, glyph |-> <<>>]>>],
  [prim |-> "Range", names |-> <<[text |-> <<"r", "a", "n", "g", "e">>, ascii |-> <<>>, glyph |-> <<8673>>]>>],
  [prim |-> "Reverse", names |-> <<[text |-> <<"r", "e", "v", "e", "r", "s", "e">>, ascii |-> <<>>, glyph |-> <<8652>>]>>],
  [prim |-> "Deshape", names |-> <<[text |-> <<"d", "e", "s", "h", "a", "p", "e">>, ascii |-> <<>>, glyph |-> <<9837>>]>>],
  [prim |-> "First", names |-> <<[text |-> <<"f", "i", "r", "s", "t">>, ascii |-> <<>>, glyph |-> <<8866>>]>>],
  [prim |-> "Last", names |-> <<>>],
  [prim |-> "Len", names |-> <<[text |-> <<"l", "e", "n", "g", "t", "h">>, ascii |-> <<>>, glyph |-> <<10747>>]>>],
  [prim |-> "Shape", names |-> <<[text |-> <<"s", "h", "a", "p", "e">>, ascii |-> <<>>, glyph |-> <<9651>>]>>],
  [prim |-> "Bits", names |-> <<[text |-> <<"b", "i", "t", "s">>, ascii |-> <<>>, glyph |-> <<8943>>]>>],
  [prim |-> "InverseBits", names |-> <<>>],
  [prim |-> "Fold", names |-> <<[text |-> <<"f", "o", "l", "d">>, ascii |-> <<>>, glyph |-> <<8743>>]>>],
  [prim |-> "Reduce", names |-> <<[text |-> <<"r", "e", "d", "u", "c", "e">>, ascii |-> <<>>, glyph |-> <<47>>]>>],
  [prim |-> "Each", names |-> <<[text |-> <<"e", "a", "c", "h">>, ascii |-> <<>>, glyph |-> <<8757>>]>>],
  [prim |-> "Rows", names |-> <<[text |-> <<"r", "o", "w", "s">>, ascii |-> <<>>, glyph |-> <<8801>>]>>],
  [prim |-> "Distribute", names |-> <<[text |-> <<"d", "i", "s", "t", "r", "i", "b", "u", "t", "e">>, ascii |-> <<>>, glyph |-> <<8762>>]>>],
  [prim |-> "Table", names |-> <<[text |-> <<"t", "a", "b", "l", "e">>, ascii |-> <<>>, glyph |-> <<8862>>]>>],
  [prim |-> "Cross", names |-> <<[text |-> <<"c", "r", "o", "s", "s">>, ascii |-> <<>>, glyph |-> <<8864>>]>>],
  [prim |-> "Scan", names |-> <<[text |-> <<"s", "c", "a", "n">>, ascii |-> <<>>, glyph |-> <<92>>]>>],
  [prim |-> "Repeat", names |-> <<[text |-> <<"r", "e", "p", "e", "a", "t">>, ascii |-> <<>>, glyph |-> <<9061>>]>>],
  [prim |-> "Level", names |-> <<[text |-> <<"l", "e", "v", "e", "l">>, ascii |-> <<>>, glyph |-> <<9050>>]>>],
  [prim |-> "Group", names |-> <<[text |-> <<"g", "r", "o", "u", "p">>, ascii |-> <<>>, glyph |-> <<8853>>]>>],
  [prim |-> "Partition", names |-> <<[text |-> <<"p", "a", "r", "t", "i", "t", "i", "o", "n">>, ascii |-> <<>>, glyph |-> <<8860>>]>>],
  [prim |-> "Reshape", names |-> <<[text |-> <<"r", "e", "s", "h", "a", "p", "e">>, ascii |-> <<>>, glyph |-> <<8623>>]>>],
  [prim |-> "Break", names |-> <<[text |-> <<"b", "r", "e", "a", "k">>, ascii |-> <<>>, glyph |-> <<9099>>]>>],
  [prim |-> "Recur", names |-> <<[text |-> <<"r", "e", "c", "u", "r">>, ascii |-> <<>>, glyph |-> <<8620>>]>>],
  [prim |-> "Dup", names |-> <<[text |-> <<"d", "u", "p", "l", "i", "c", "a", "t", "e">>, ascii |-> <<>>, glyph |-> <<46>>]>>],
  [prim |-> "Flip", names |-> <<[text |-> <<"f", "l", "i", "p">>, ascii |-> <<"Colon">>, glyph |-> <<8758>>]>>],
  [prim |-> "Over", names |-> <<[text |-> <<"o", "v", "e", "r">>, ascii |-> <<>>, glyph |-> <<44>>]>>],
  [prim |-> "Pop", names |-> <<[text |-> <<"p", "o", "p">>, ascii |-> <<>>, glyph |-> <<59>>]>>],
  [prim |-> "Roll", names |-> <<[text |-> <<"r", "o", "l", "l">>, ascii |-> <<>>, glyph |-> <<8631>>]>>],
  [prim |-> "Unroll", names |-> <<[text |-> <<"u", "n", "r", "o", "l", "l">>, ascii |-> <<>>, glyph |-> <<8630>>]>>],
  [prim |-> "Dip", names |-> <<[text |-> <<"d", "i", "p">>, ascii |-> <<>>, glyph |-> <<8857>>]>>],
  [prim |-> "Restack", names |-> <<[text |-> <<"r", "e", "s", "t", "a", "c", "k">>, ascii |-> <<>>, glyph |-> <<8693>>]>>],
  [prim |-> "Invert", names |-> <<[text |-> <<"i", "n", "v", "e", "r", "t">>, ascii |-> <<>>, glyph |-> <<9048>>]>>],
  [prim |-> "Under", names |-> <<[text |-> <<"u", "n", "d", "e", "r">>, ascii |-> <<>>, glyph |-> <<9052>>]>>],
  [prim |-> "Fill", names |-> <<[text |-> <<"f", "i", "l", "l">>, ascii |-> <<>>, glyph |-> <<11034>>]>>],
  [prim |-> "Bind", names |-> <<[text |-> <<"b", "i", "n", "d">>, ascii |-> <<>>, glyph |-> <<39>>]>>],
  [prim |-> "Both", names |-> <<[text |-> <<"b", "o", "t", "h">>, ascii |-> <<>>, glyph |-> <<8745>>]>>],
  [prim |-> "Fork", names |-> <<[text |-> <<"f", "o", "r", "k">>, ascii |-> <<>>, glyph |-> <<8835>>]>>],
  [prim |-> "Bracket", names |-> <<[text |-> <<"b", "r", "a", "c", "k", "e", "t">>, ascii |-> <<>>, glyph |-> <<8851>>]>>],
  [prim |-> "If", names |-> <<[text |-> <<"i", "f">>, ascii |-> <<>>, glyph |-> <<63>>]>>],
  [prim |-> "Try", names |-> <<[text |-> <<"t", "r", "y">>, ascii |-> <<>>, glyph |-> <<9059>>]>>],
  [prim |-> "Assert", names |-> <<[text |-> <<"a", "s", "s", "e", "r", "t">>, ascii |-> <<>>, glyph |-> <<9060>>]>>],
  [prim |-> "Rand", names |-> <<[text |-> <<"r", "a", "n", "d", "o", "m">>, ascii |-> <<>>, glyph |-> <<9858>>]>>],
  [prim |-> "Gen", names |-> <<[text |-> <<"g", "e", "n">>, ascii |-> <<>>, glyph |-> <<>>]>>],
  [prim |-> "Deal", names |-> <<[text |-> <<"d", "e", "a", "l">>, ascii |-> <<>>, glyph |-> <<>>]>>],
  [prim |-> "Use", names |-> <<[text |-> <<"u", "s", "e">>, ascii |-> <<>>, glyph |-> <<>>]>>],
  [prim |-> "Tag", names |-> <<[text |-> <<"t", "a", "g">>, ascii |-> <<>>, glyph |-> <<>>]>>],
  [prim |-> "Type", names |-> <<[text |-> <<"t", "y", "p", "e">>, ascii |-> <<>>, glyph |-> <<>>]>>],
  [prim |-> "Sig", names |-> <<[text |-> <<"s", "i", "g", "n", "a", "t", "u", "r", "e">>, ascii |-> <<>>, glyph |-> <<>>]>>],
  [prim |-> "Spawn", names |-> <<[text |-> <<"s", "p", "a", "w", "n">>, ascii |-> <<>>, glyph |-> <<>>]>>],
  [prim |-> "Wait", names |-> <<[text |-> <<"w", "a", "i", "t">>, ascii |-> <<>>, glyph |-> <<>>]>>],
  [prim |-> "Now", names |-> <<[text |-> <<"n", "o", "w">>, ascii |-> <<>>, glyph |-> <<>>]>>],
  [prim |-> "Trace", names |-> <<[text |-> <<"t", "r", "a", "c", "e">>, ascii |-> <<>>, glyph |-> <<126>>]>>],
  [prim |-> "InvTrace", names |-> <<>>],
  [prim |-> "Dump", names |-> <<[text |-> <<"d", "u", "m", "p">>, ascii |-> <<>>, glyph |-> <<>>]>>],
  [prim |-> "SysSleep", names |-> <<[text |-> <<"&", "s", "l">>, ascii |-> <<>>, glyph |-> <<>>]>>],
  [prim |-> "SysTcpConnect", names |-> <<[text |-> <<"&", "t", "c", "p", "c">>, ascii |-> <<>>, glyph |-> <<>>]>>]
  >>

Primitives == {Registry[i].prim : i \in 1..Len(Registry)}

\* Primitive::all(): the variants in enumeration order
all == [i \in 1..Len(Registry) |-> Registry[i].prim]

\* Primitive::names as a table, indexed by variant
NamesTable ==
  [p \in Primitives |->
     Registry[CHOOSE i \in 1..Len(Registry) : Registry[i].prim = p].names]

names(p) == NamesTable[p]

name_first_char(p) ==
  IF names(p) = None THEN None ELSE Some(SubSeq(names(p)[1].text, 1, 1))

name(p) == IF names(p) = None THEN None ELSE Some(names(p)[1].text)

ascii(p) == IF names(p) = None THEN None ELSE names(p)[1].ascii

glyph(p) == IF names(p) = None THEN None ELSE names(p)[1].glyph

deprecation_suggestion(p) ==
  IF p \in {"Roll", "Unroll"} THEN Some("try using dip instead")
  ELSE IF p = "Restack" THEN Some("")
  ELSE None

is_deprecated(p) == deprecation_suggestion(p) # None

non_deprecated == SelectSeq(all, LAMBDA p : ~is_deprecated(p))

inverse(p) ==
  CASE p = "Identity" -> Some("Identity")
    [] p = "Flip" -> Some("Flip")
    [] p = "Neg" -> Some("Neg")
    [] p = "Not" -> Some("Not")
    [] p = "Sin" -> Some("Asin")
    [] p = "Cos" -> Some("Acos")
    [] p = "Asin" -> Some("Sin")
    [] p = "Acos" -> Some("Cos")
    [] p = "Reverse" -> Some("Reverse")
    [] p = "Transpose" -> Some("InvTranspose")
    [] p = "InvTranspose" -> Some("Transpose")
    [] p = "Bits" -> Some("InverseBits")
    [] p = "InverseBits" -> Some("Bits")
    [] p = "Couple" -> Some("Uncouple")
    [] p = "Roll" -> Some("Unroll")
    [] p = "Unroll" -> Some("Roll")
    [] p = "Trace" -> Some("InvTrace")
    [] p = "InvTrace" -> Some("Trace")
    [] p = "Box" -> Some("Unbox")
    [] p = "Unbox" -> Some("Box")
    [] p = "Where" -> Some("InvWhere")
    [] p = "InvWhere" -> Some("Where")
    [] OTHER -> None

(***************************************************************************)
(* Name resolver.                                                           *)
(***************************************************************************)
\* characters of the modelled alphabet for which char::is_uppercase holds
UpperChars == {"R"}

\* characters of the modelled alphabet that take two bytes in UTF-8
\* ("U00E9" stands for the one character e-acute)
WideChars == {"U00E9"}

is_uppercase(c) == c \in UpperChars

len_utf8(c) == IF c \in WideChars THEN 2 ELSE 1

RECURSIVE str_len(_)
\* str::len: the length of the text in bytes
str_len(s) == IF s = <<>> THEN 0 ELSE len_utf8(Head(s)) + str_len(Tail(s))

starts_with(text, prefix) ==
  Len(prefix) <= Len(text) /\ SubSeq(text, 1, Len(prefix)) = prefix

\* Option of the first element of a sequence (Iterator::find / next)
first_of(hits) == IF hits = <<>> THEN None ELSE Some(hits[1])

\* u8::to_ascii_lowercase on the characters of the modelled alphabet
to_ascii_lowercase(c) == IF c = "R" THEN "r" ELSE c

\* str::eq_ignore_ascii_case
eq_ignore_ascii_case(a, b) ==
  /\ Len(a) = Len(b)
  /\ \A i \in 1..Len(a) : to_ascii_lowercase(a[i]) = to_ascii_lowercase(b[i])

from_name_prefix(text) ==
  first_of(SelectSeq(all, LAMBDA p :
             names(p) # None /\ starts_with(text, names(p)[1].text)))

\* Primitive::from_name: the first primitive whose text name is the text,
\* compared without regard to ASCII case
from_name(text) ==
  first_of(SelectSeq(all, LAMBDA p :
             names(p) # None /\ eq_ignore_ascii_case(names(p)[1].text, text)))

\* Primitive::from_simple: the first primitive with the ASCII token
from_simple(s) == first_of(SelectSeq(all, LAMBDA p : ascii(p) = Some(s)))

\* Primitive::from_glyph: the first primitive with the glyph
from_glyph(c) == first_of(SelectSeq(all, LAMBDA p : glyph(p) = Some(c)))

format_name_exception(s) ==
  CASE s = <<"i", "d">> -> Some("Identity")
    [] s = <<"g", "a">> -> Some("Gap")
    [] s = <<"d", "i">> -> Some("Dip")
    [] s = <<"p", "i">> -> Some("Pi")
    [] s = <<"&", "n">> -> Some("Now")
    [] OTHER -> None

prefix_candidate(p, s) ==
  /\ names(p) # None
  /\ names(p)[1].glyph # None
  /\ names(p)[1].glyph[1] > 127
  /\ starts_with(names(p)[1].text, s)

from_format_name_no_min(s) ==
  IF \E i \in 1..Len(s) : is_uppercase(s[i]) THEN None
  ELSE IF str_len(s) < 2 THEN None
  ELSE IF format_name_exception(s) # None THEN format_name_exception(s)
  ELSE
    LET exact == first_of(SelectSeq(all,
                   LAMBDA p : names(p) # None /\ names(p)[1].text = s)) IN
    IF exact # None THEN exact
    ELSE
      LET matching == SelectSeq(all, LAMBDA p : prefix_candidate(p, s)) IN
      IF matching = <<>> THEN None
      ELSE IF names(matching[1])[1].text = s \/ Len(matching) = 1
           THEN Some(matching[1]) ELSE None

from_format_name(s) ==
  IF \E i \in 1..Len(s) : is_uppercase(s[i]) THEN None
  ELSE IF str_len(s) < 2 THEN None
  ELSE IF format_name_exception(s) # None THEN format_name_exception(s)
  ELSE
    LET exact == first_of(SelectSeq(all,
                   LAMBDA p : names(p) # None /\ names(p)[1].text = s)) IN
    IF exact # None THEN exact
    ELSE IF str_len(s) < 3 THEN None
    ELSE
      LET matching == SelectSeq(all, LAMBDA p : prefix_candidate(p, s)) IN
      IF matching = <<>> THEN None
      ELSE
        LET res == matching[1]
            exact_match == names(res)[1].text = s
        IN IF exact_match \/ Len(matching) = 1 THEN Some(res) ELSE None

RECURSIVE first_len_ascending(_, _, _)
first_len_ascending(s, start, len) ==
  IF len > Len(s) - start THEN 0
  ELSE IF from_format_name(SubSeq(s, start + 1, start + len)) # None THEN len
  ELSE first_len_ascending(s, start, len + 1)

shortest_from(s, start, len) == first_len_ascending(s, start, 2)

RECURSIVE longest_from(_, _, _)
\* the inner loop "for len in (2..=indices.len() - start).rev()": the first
\* (longest) len at which from_format_name resolves, 0 when none does
longest_from(s, start, len) ==
  IF len < 2 THEN 0
  ELSE IF from_format_name(SubSeq(s, start + 1, start + len)) # None THEN len
  ELSE longest_from(s, start, len - 1)

\* std::f64::consts::PI and TAU in units of 2^-11, and f64::INFINITY as a
\* number above every finite one
PI == 6434
TAU == 12868
INFINITY == 2147483647

as_constant_eta_pi(p) ==
  CASE p = "Pi" -> Some(PI)
    [] p = "Tau" -> Some(TAU)
    [] p = "Eta" -> Some(PI)
    [] p = "Infinity" -> Some(INFINITY)
    [] OTHER -> None

as_constant(p) ==
  CASE p = "Pi" -> Some(PI)
    [] p = "Tau" -> Some(TAU)
    [] p = "Eta" -> Some(PI \div 2)
    [] p = "Infinity" -> Some(INFINITY)
    [] OTHER -> None

RECURSIVE multi_loop_backtracking(_, _, _), try_lens(_, _, _, _)
try_lens(s, start, prims, len) ==
  IF len < 2 THEN None
  ELSE
    LET sub_name == SubSeq(s, start + 1, start + len) IN
    IF from_format_name(sub_name) = None THEN try_lens(s, start, prims, len - 1)
    ELSE
      LET rest == multi_loop_backtracking(
                    s, start + len,
                    Append(prims, [prim |-> from_format_name(sub_name)[1],
                                   sub |-> sub_name]))
      IN IF rest # None THEN rest ELSE try_lens(s, start, prims, len - 1)

multi_loop_backtracking(s, start, prims) ==
  IF start = Len(s) THEN Some(prims)
  ELSE try_lens(s, start, prims, Len(s) - start)

RECURSIVE multi_loop(_, _, _)
\* the loop 'outer of from_format_name_multi
multi_loop(s, start, prims) ==
  IF start = Len(s) THEN Some(prims)
  ELSE
    LET len == longest_from(s, start, Len(s) - start) IN
    IF len = 0 THEN None
    ELSE
      LET sub_name == SubSeq(s, start + 1, start + len) IN
      multi_loop(s, start + len,
                 Append(prims, [prim |-> from_format_name(sub_name)[1],
                                sub |-> sub_name]))

from_format_name_multi(s) ==
  IF Len(s) < 2 THEN None ELSE multi_loop(s, 0, <<>>)

(***************************************************************************)
(* impl fmt::Display for Primitive.  A display is a sequence of pieces: a   *)
(* glyph, a character of a token or name, or a variant's debug name.        *)
(***************************************************************************)
glyph_piece(c) == [k |-> "glyph", c |-> c, s |-> ""]

chars(txt) == [i \in 1..Len(txt) |-> [k |-> "char", c |-> 0, s |-> txt[i]]]

\* the code point of the inverse glyph written in the fallback table
InverseGlyph == 9048

RECURSIVE display(_)

display_fallback_wrong_base(p) ==
  CASE p = "InvTranspose" -> <<glyph_piece(InverseGlyph)>> \o display("Transpose")
    [] p = "InverseBits" -> <<glyph_piece(InverseGlyph)>> \o display("Bits")
    [] p = "InvTrace" -> <<glyph_piece(InverseGlyph)>> \o display("Transpose")
    [] p = "InvWhere" -> <<glyph_piece(InverseGlyph)>> \o display("Where")
    [] p = "Uncouple" -> <<glyph_piece(InverseGlyph)>> \o display("Couple")
    [] p = "Untake" -> <<glyph_piece(InverseGlyph)>> \o display("Take")
    [] p = "Undrop" -> <<glyph_piece(InverseGlyph)>> \o display("Drop")
    [] p = "Unselect" -> <<glyph_piece(InverseGlyph)>> \o display("Select")
    [] p = "Unpick" -> <<glyph_piece(InverseGlyph)>> \o display("Pick")
    [] p = "Cos" -> display("Sin") \o display("Add") \o display("Eta")
    [] p = "Asin" -> display("Invert") \o display("Sin")
    [] p = "Acos" -> display("Invert") \o display("Cos")
    [] p = "Last" -> display("First") \o display("Reverse")
    [] OTHER -> <<[k |-> "debug", c |-> 0, s |-> p]>>

\* the hand-written displays of the primitives without any surface
display_fallback(p) ==
  CASE p = "InvTranspose" -> <<glyph_piece(InverseGlyph)>> \o display("Transpose")
    [] p = "InverseBits" -> <<glyph_piece(InverseGlyph)>> \o display("Bits")
    [] p = "InvTrace" -> <<glyph_piece(InverseGlyph)>> \o display("Trace")
    [] p = "InvWhere" -> <<glyph_piece(InverseGlyph)>> \o display("Where")
    [] p = "Uncouple" -> <<glyph_piece(InverseGlyph)>> \o display("Couple")
    [] p = "Untake" -> <<glyph_piece(InverseGlyph)>> \o display("Take")
    [] p = "Undrop" -> <<glyph_piece(InverseGlyph)>> \o display("Drop")
    [] p = "Unselect" -> <<glyph_piece(InverseGlyph)>> \o display("Select")
    [] p = "Unpick" -> <<glyph_piece(InverseGlyph)>> \o display("Pick")
    [] p = "Cos" -> display("Sin") \o display("Add") \o display("Eta")
    [] p = "Asin" -> display("Invert") \o display("Sin")
    [] p = "Acos" -> display("Invert") \o display("Cos")
    [] p = "Last" -> display("First") \o display("Reverse")
    [] OTHER -> <<[k |-> "debug", c |-> 0, s |-> p]>>

display(p) ==
  IF glyph(p) # None THEN <<glyph_piece(glyph(p)[1])>>
  ELSE IF ascii(p) # None THEN chars(ascii(p)[1])
  ELSE IF name(p) # None THEN chars(name(p)[1])
  ELSE display_fallback(p)

(***************************************************************************)
(* Values, failures and the execution context (Uiua) of the dispatcher.     *)
(***************************************************************************)
Num(n) == [t |-> "num", n |-> n]
Str(k) == [t |-> "str", n |-> k]
Fn(id) == [t |-> "fn", n |-> id]

\* Value::as_nat: the natural number a value holds, if it holds one
as_nat(v) == IF v.t = "num" /\ v.n >= 0 THEN Some(v.n) ELSE None

\* Value::as_num: the number a value holds, if it holds one
as_num(v) == IF v.t = "num" THEN Some(v.n) ELSE None

\* texts of the values used as messages
MsgUser == Str(0)
MsgUnderflow == Str(1)
MsgBreak == Str(2)
MsgNotNat == Str(3)
MsgNoInverse == Str(4)
MsgMismatch == Str(5)
MsgNotNum == Str(6)

\* UiuaResult: Ok(()) or Err(UiuaError); val is what UiuaError::value() gives
Ok == [kind |-> "ok", val |-> Num(0), lvl |-> 0, span |-> 0]
ErrRun(msg, sp) == [kind |-> "run", val |-> msg, lvl |-> 0, span |-> sp]
ErrThrow(v, sp) == [kind |-> "throw", val |-> v, lvl |-> 0, span |-> sp]
ErrBreak(n, sp) == [kind |-> "break", val |-> MsgBreak, lvl |-> n, span |-> sp]

is_ok(e) == e.err.kind = "ok"

(***************************************************************************)
(* Idle values of the parts of the state a specification does not use.      *)
(***************************************************************************)
NoCall == [op |-> "none", res |-> None]

NoLast ==
  [prim |-> "none", pre |-> <<>>, err |-> Ok, log |-> <<>>, span |-> 0,
   ext |-> <<>>, fill |-> None]

(***************************************************************************)
(* Registry specification: the table functions applied to every primitive  *)
(* (pair of primitives).                                                    *)
(***************************************************************************)
InitReg ==
  /\ input \in Primitives \X Primitives
  /\ query = NoCall
  /\ stack = <<>>
  /\ last = NoLast
  /\ next_tag = 0
  /\ units = <<>>

\* Primitive::inverse(input[1])
Inverse ==
  /\ query.op = "none"
  /\ query' = [op |-> "inverse", res |-> inverse(input[1])]
  /\ UNCHANGED <<input, stack, last, next_tag, units>>

\* Primitive::inverse applied to the primitive the first call returned
InverseOfInverse ==
  /\ query.op = "inverse"
  /\ query.res # None
  /\ query' = [op |-> "inverse_inverse", res |-> inverse(query.res[1])]
  /\ UNCHANGED <<input, stack, last, next_tag, units>>

\* two Options hold the same surface
same_surface(x, y) == x # None /\ y # None /\ x = y

\* the comparison of tests::name_collisions on the pair (a, b), made for
\* each of the three surfaces
CompareSurfaces ==
  /\ query.op = "none"
  /\ query' = [op |-> "surfaces",
              res |-> [text |-> same_surface(name(input[1]), name(input[2])),
                       ascii |-> same_surface(ascii(input[1]), ascii(input[2])),
                       glyph |-> same_surface(glyph(input[1]), glyph(input[2]))]]
  /\ UNCHANGED <<input, stack, last, next_tag, units>>

\* each surface of input[1] handed to the lookup of that surface
LookupSurfaces ==
  /\ query.op = "none"
  /\ query' = [op |-> "lookup",
               res |-> [text |-> IF name(input[1]) = None THEN None
                                 ELSE from_name(name(input[1])[1]),
                        ascii |-> IF ascii(input[1]) = None THEN None
                                  ELSE from_simple(ascii(input[1])[1]),
                        glyph |-> IF glyph(input[1]) = None THEN None
                                  ELSE from_glyph(glyph(input[1])[1])]]
  /\ UNCHANGED <<input, stack, last, next_tag, units>>

\* input[1] is displayed
Display ==
  /\ query.op = "none"
  /\ query' = [op |-> "display", res |-> display(input[1])]
  /\ UNCHANGED <<input, stack, last, next_tag, units>>

NextReg ==
  Inverse \/ InverseOfInverse \/ CompareSurfaces \/ LookupSurfaces \/ Display

SpecReg == InitReg /\ [][NextReg]_vars

(***************************************************************************)
(* Name-resolver specification: the decoders applied to bounded texts.      *)
(***************************************************************************)
\* number of pieces an input text is concatenated from
MaxPieces == 3

Pieces ==
  { <<"r", "e">>, <<"r", "e", "v">>, <<"s", "h">>, <<"t", "a", "b">>,
    <<"k", "e">>, <<"e">>, <<"l", "e">>, <<"n">>, <<"i", "d">>,
    <<"R">>, <<"U00E9">> }

RECURSIVE Texts(_)
Texts(k) ==
  IF k = 0 THEN {<<>>}
  ELSE Texts(k - 1) \cup {p \o t : p \in Pieces, t \in Texts(k - 1)}

InitNames ==
  /\ input \in Texts(MaxPieces)
  /\ query = NoCall
  /\ stack = <<>>
  /\ last = NoLast
  /\ next_tag = 0
  /\ units = <<>>

FromFormatName ==
  /\ query.op = "none"
  /\ query' = [op |-> "from_format_name", res |-> from_format_name(input)]
  /\ UNCHANGED <<input, stack, last, next_tag, units>>

FromFormatNameMulti ==
  /\ query.op = "none"
  /\ query' = [op |-> "from_format_name_multi", res |-> from_format_name_multi(input)]
  /\ UNCHANGED <<input, stack, last, next_tag, units>>

NextNames == FromFormatName \/ FromFormatNameMulti

SpecNames == InitNames /\ [][NextNames]_vars

(***************************************************************************)
(* Properties of the registry and the name resolver.                        *)
(***************************************************************************)

\* C1: whenever inverse(p) is Some(q), inverse(q) is Some(p).
C1_InverseSymmetric ==
  query.op = "inverse_inverse" => query.res = Some(input[1])

RECURSIVE concat_subs(_)
concat_subs(segs) ==
  IF segs = <<>> THEN <<>> ELSE Head(segs).sub \o concat_subs(Tail(segs))

\* offset (in characters) at which segment i of segs starts
seg_offset(segs, i) == Len(concat_subs(SubSeq(segs, 1, i - 1)))

\* C4: a Some result of from_format_name_multi is the greedy reconstruction:
\* the segments concatenate to the input, each spans at least 2 characters,
\* each primitive is from_format_name of its segment, and no longer
\* substring at a segment's offset resolves.
C4_GreedyReconstruction ==
  (query.op = "from_format_name_multi" /\ query.res # None) =>
    LET segs == query.res[1] IN
    /\ concat_subs(segs) = input
    /\ \A i \in 1..Len(segs) :
         /\ Len(segs[i].sub) >= 2
         /\ from_format_name(segs[i].sub) = Some(segs[i].prim)
         /\ \A n \in (Len(segs[i].sub) + 1)..(Len(input) - seg_offset(segs, i)) :
              from_format_name(SubSeq(input, seg_offset(segs, i) + 1,
                                      seg_offset(segs, i) + n)) = None

\* a decoding of two or more segments, one of which has a shorter prefix
\* that resolves too
C4_Witness ==
  /\ query.op = "from_format_name_multi"
  /\ query.res # None
  /\ Len(query.res[1]) >= 2
  /\ \E i \in 1..Len(query.res[1]) : \E n \in 2..(Len(query.res[1][i].sub) - 1) :
       from_format_name(SubSeq(query.res[1][i].sub, 1, n)) # None

has_uppercase(s) == \E i \in 1..Len(s) : is_uppercase(s[i])

exact_names(s) == {p \in Primitives : name(p) = Some(s)}

\* the primitives with a non-ASCII glyph whose text name starts with s
candidates(s) ==
  {p \in Primitives : /\ glyph(p) # None
                      /\ glyph(p)[1] > 127
                      /\ starts_with(name(p)[1], s)}

prefix_rule(s, res) ==
  IF Cardinality(candidates(s)) = 1 \/ \E c \in candidates(s) : name(c) = Some(s)
  THEN res # None /\ res[1] \in candidates(s)
  ELSE res = None

\* C5 as stated: uppercase or length < 2 gives none; then the exception
\* table; then an exact text name; then the unique-prefix rule.
C5_Original ==
  query.op = "from_format_name" =>
    IF has_uppercase(input) \/ str_len(input) < 2 THEN query.res = None
    ELSE IF format_name_exception(input) # None
      THEN query.res = format_name_exception(input)
    ELSE IF exact_names(input) # {}
      THEN query.res # None /\ query.res[1] \in exact_names(input)
    ELSE prefix_rule(input, query.res)

\* C5 amended: as stated, but a text of fewer than 3 bytes that is neither
\* an exception nor an exact text name gives none, whatever it is a prefix of.
C5_FormatName ==
  query.op = "from_format_name" =>
    IF has_uppercase(input) \/ str_len(input) < 2 THEN query.res = None
    ELSE IF format_name_exception(input) # None
      THEN query.res = format_name_exception(input)
    ELSE IF exact_names(input) # {}
      THEN query.res # None /\ query.res[1] \in exact_names(input)
    ELSE IF str_len(input) < 3 THEN query.res = None
    ELSE prefix_rule(input, query.res)

\* a 2-byte text that is the prefix of exactly one candidate is rejected
C5_Witness ==
  /\ query.op = "from_format_name"
  /\ ~has_uppercase(input)
  /\ str_len(input) = 2
  /\ format_name_exception(input) = None
  /\ exact_names(input) = {}
  /\ Cardinality(candidates(input)) = 1
  /\ query.res = None

\* C11: for a non-deprecated primitive, looking up each surface it has
\* (text name, ASCII token, glyph) gives the primitive back.
C11_RoundTrip ==
  (query.op = "lookup" /\ ~is_deprecated(input[1])) =>
    /\ name(input[1]) # None => query.res.text = Some(input[1])
    /\ ascii(input[1]) # None => query.res.ascii = Some(input[1])
    /\ glyph(input[1]) # None => query.res.glyph = Some(input[1])

\* a live primitive with all three surfaces was looked up by each of them
C11_Witness ==
  /\ query.op = "lookup"
  /\ ~is_deprecated(input[1])
  /\ name(input[1]) # None /\ ascii(input[1]) # None /\ glyph(input[1]) # None
  /\ query.res.text = Some(input[1])
  /\ query.res.ascii = Some(input[1])
  /\ query.res.glyph = Some(input[1])

\* a primitive without glyph, ASCII token and text name
no_surface(p) == glyph(p) = None /\ ascii(p) = None /\ name(p) = None

\* the display of input[1] is the inverse glyph, or the display of Invert,
\* followed by the display of input[2]
inverse_display_of_base ==
  /\ query.op = "display"
  /\ no_surface(input[1])
  /\ \/ query.res = <<glyph_piece(InverseGlyph)>> \o display(input[2])
     \/ query.res = display("Invert") \o display(input[2])

\* the mirrored undo forms the fallback table displays as inverses
UndoDisplayed == {"Untake", "Undrop", "Unselect", "Unpick"}

\* C15 (as claimed): whenever a primitive P without any surface is displayed
\* as the inverse glyph followed by the display of a base primitive B,
\* inverse(B) is P.
C15_Original ==
  inverse_display_of_base => inverse(input[2]) = Some(input[1])

\* C15: a primitive P without any surface that is displayed as the inverse
\* glyph followed by the display of a base primitive B is inverse(B), unless
\* P is one of Untake, Undrop, Unselect, Unpick, whose base has no inverse.
C15_FallbackConsistent ==
  inverse_display_of_base =>
    IF input[1] \in UndoDisplayed
    THEN inverse(input[2]) = None
    ELSE inverse(input[2]) = Some(input[1])

C15_Witness ==
  /\ inverse_display_of_base
  /\ input[1] = "Acos"
  /\ input[2] = "Cos"
  /\ inverse(input[2]) = Some(input[1])

\* the lengths of at least 2 at which the substring of s at offset start
\* resolves
resolving_lens(s, start) ==
  {n \in 2..(Len(s) - start) :
     from_format_name(SubSeq(s, start + 1, start + n)) # None}

\* the largest element of a non-empty set of numbers
max_of(S) == CHOOSE m \in S : \A x \in S : x <= m

RECURSIVE greedy_stuck(_, _)
\* the greedy scan of s from offset start, committing the longest resolving
\* substring each time, reaches an offset before the end where no substring
\* of length at least 2 resolves
greedy_stuck(s, start) ==
  IF start >= Len(s) THEN FALSE
  ELSE IF resolving_lens(s, start) = {} THEN TRUE
  ELSE greedy_stuck(s, start + max_of(resolving_lens(s, start)))

\* C20: from_format_name_multi returns none exactly when its input has fewer
\* than 2 positions or the greedy scan gets stuck, as it does when exactly
\* one position remains after a committed segment; otherwise it returns a
\* sequence that covers the whole input.
C20_MultiFails ==
  query.op = "from_format_name_multi" =>
    /\ query.res = None <=> (Len(input) < 2 \/ greedy_stuck(input, 0))
    /\ query.res # None => concat_subs(query.res[1]) = input
    /\ (Len(input) >= 3 /\ resolving_lens(input, 0) # {}
          /\ max_of(resolving_lens(input, 0)) = Len(input) - 1)
         => query.res = None

C20_Witness ==
  /\ query.op = "from_format_name_multi"
  /\ query.res = None
  /\ Len(input) >= 3
  /\ resolving_lens(input, 0) # {}
  /\ max_of(resolving_lens(input, 0)) = Len(input) - 1

RECURSIVE segmentable(_, _)
\* s from offset start on can be cut into substrings of length at least 2
\* that all resolve
segmentable(s, start) ==
  \/ start = Len(s)
  \/ \E n \in resolving_lens(s, start) : segmentable(s, start + n)

\* the longest resolving substring at the start of the input leaves a
\* remainder that the decoder does not decode
longest_leaves_undecodable ==
  /\ resolving_lens(input, 0) # {}
  /\ LET n == max_of(resolving_lens(input, 0))
     IN n < Len(input)
        /\ from_format_name_multi(SubSeq(input, n + 1, Len(input))) = None

\* C21: when the longest resolving substring at the start of the input
\* leaves a remainder that cannot be decoded, from_format_name_multi returns
\* none, also when a shorter resolving substring at the start would let the
\* whole input be cut into resolving substrings.
C21_NoBacktracking ==
  (query.op = "from_format_name_multi" /\ longest_leaves_undecodable) =>
    query.res = None

C21_Witness ==
  /\ query.op = "from_format_name_multi"
  /\ longest_leaves_undecodable
  /\ segmentable(input, 0)
  /\ query.res = None

\* C22: a text of byte length 2 resolves only through the exception table
\* or as a primitive's full text name, never as a prefix; the exception
\* table is consulted first.
C22_TwoBytes ==
  (query.op = "from_format_name" /\ str_len(input) = 2) =>
    /\ format_name_exception(input) # None =>
         query.res = format_name_exception(input)
    /\ query.res # None =>
         \/ query.res = format_name_exception(input)
         \/ query.res[1] \in exact_names(input)
    /\ (format_name_exception(input) = None /\ exact_names(input) = {}) =>
         query.res = None

\* two bytes that start exactly one glyph primitive's name, and no more,
\* were looked up and gave none
C22_Witness ==
  /\ query.op = "from_format_name"
  /\ query.res = None
  /\ str_len(input) = 2
  /\ \E p \in candidates(input) :
       /\ candidates(input) = {p}
       /\ name(p) # Some(input)

\* the function values of the modelled programs: primitive-backed functions
\* and user-defined functions given by their signature and their effect
\* (operands popped, values pushed, outcome); under is the Under-split
\* (before, after) the function derives, if it derives one; a composed
\* function names its two parts (f after g), a constant function its value;
\* a function of kind "loop" never returns
Functions ==
  << [kind |-> "user", prim |-> "", args |-> 0, pops |-> 0, pushes |-> <<>>,
      err |-> Ok, under |-> <<>>],
     [kind |-> "user", prim |-> "", args |-> 1, pops |-> 1,
      pushes |-> <<Num(0), Num(1)>>, err |-> Ok, under |-> <<3, 1>>],
     [kind |-> "user", prim |-> "", args |-> 2, pops |-> 2, pushes |-> <<Num(1)>>,
      err |-> Ok, under |-> <<2, 5>>],
     [kind |-> "user", prim |-> "", args |-> 2, pops |-> 2, pushes |-> <<>>,
      err |-> ErrThrow(MsgUser, 0), under |-> <<4, 1>>],
     [kind |-> "user", prim |-> "", args |-> 1, pops |-> 1,
      pushes |-> <<Str(0), Str(0)>>, err |-> ErrRun(MsgMismatch, 0),
      under |-> <<1, 5>>],
     [kind |-> "prim", prim |-> "Break", args |-> 1, pops |-> 0, pushes |-> <<>>,
      err |-> Ok, under |-> <<>>],
     [kind |-> "prim", prim |-> "Fill", args |-> 2, pops |-> 0, pushes |-> <<>>,
      err |-> Ok, under |-> <<>>],
     [kind |-> "prim", prim |-> "Flip", args |-> 2, pops |-> 0, pushes |-> <<>>,
      err |-> Ok, under |-> <<>>],
     [kind |-> "prim", prim |-> "Roll", args |-> 3, pops |-> 0, pushes |-> <<>>,
      err |-> Ok, under |-> <<>>],
     [kind |-> "prim", prim |-> "Unroll", args |-> 3, pops |-> 0, pushes |-> <<>>,
      err |-> Ok, under |-> <<>>],
     [kind |-> "prim", prim |-> "Dup", args |-> 1, pops |-> 0, pushes |-> <<>>,
      err |-> Ok, under |-> <<>>],
     [kind |-> "comp", prim |-> "", args |-> 3, pops |-> 0, pushes |-> <<>>,
      err |-> Ok, under |-> <<>>, f |-> 8, g |-> 9],
     [kind |-> "comp", prim |-> "", args |-> 3, pops |-> 0, pushes |-> <<>>,
      err |-> Ok, under |-> <<>>, f |-> 10, g |-> 8],
     [kind |-> "comp", prim |-> "", args |-> 3, pops |-> 0, pushes |-> <<>>,
      err |-> Ok, under |-> <<>>, f |-> 8, g |-> 10],
     [kind |-> "comp", prim |-> "", args |-> 3, pops |-> 0, pushes |-> <<>>,
      err |-> Ok, under |-> <<>>, f |-> 9, g |-> 8],
     [kind |-> "comp", prim |-> "", args |-> 2, pops |-> 0, pushes |-> <<>>,
      err |-> Ok, under |-> <<>>, f |-> 8, g |-> 8],
     [kind |-> "comp", prim |-> "", args |-> 2, pops |-> 0, pushes |-> <<>>,
      err |-> Ok, under |-> <<>>, f |-> 16, g |-> 16],
     [kind |-> "comp", prim |-> "", args |-> 2, pops |-> 0, pushes |-> <<>>,
      err |-> Ok, under |-> <<>>, f |-> 11, g |-> 8],
     [kind |-> "const", prim |-> "", args |-> 0, pops |-> 0, pushes |-> <<>>,
      err |-> Ok, under |-> <<>>, val |-> Num(1)],
     [kind |-> "loop", prim |-> "", args |-> 0, pops |-> 0, pushes |-> <<>>,
      err |-> Ok, under |-> <<>>] >>

FnIds == 1..Len(Functions)

\* Value::signature().args: a value that is no function takes no operands
sig_args(v) == IF v.t = "fn" THEN Functions[v.n].args ELSE 0

\* Uiua::push
push(e, v) == [e EXCEPT !.stack = Append(@, v)]

\* the value Uiua::pop returns when the stack is not empty
top(e) == e.stack[Len(e.stack)]

\* the context after a successful Uiua::pop
popped(e) == [e EXCEPT !.stack = SubSeq(@, 1, Len(@) - 1)]

\* Uiua::pop on an empty stack
underflow(e) == [e EXCEPT !.err = ErrRun(MsgUnderflow, e.span)]

\* Uiua::clone_stack_top(n): the top n values (fewer if the stack is shorter)
clone_stack_top(e, n) ==
  SubSeq(e.stack, IF Len(e.stack) > n THEN Len(e.stack) - n + 1 ELSE 1, Len(e.stack))

\* usize::saturating_sub
saturating_sub(a, b) == IF a > b THEN a - b ELSE 0

\* Uiua::truncate_stack (Vec::truncate: no effect when size >= len)
truncate_stack(e, size) ==
  IF size >= Len(e.stack) THEN e ELSE [e EXCEPT !.stack = SubSeq(@, 1, size)]

RECURSIVE push_all(_, _)
\* "for val in backup { env.push(val) }"
push_all(e, vals) ==
  IF vals = <<>> THEN e ELSE push_all(push(e, Head(vals)), Tail(vals))

\* a user-defined function called on the context: it pops its operands,
\* pushes its results and returns its outcome
user_call(d, e) ==
  IF Len(e.stack) < d.pops
  THEN [e EXCEPT !.stack = <<>>, !.err = ErrRun(MsgUnderflow, e.span)]
  ELSE [e EXCEPT !.stack = SubSeq(@, 1, Len(@) - d.pops) \o d.pushes,
                 !.err = IF d.err.kind = "ok" THEN Ok
                         ELSE [d.err EXCEPT !.span = e.span]]

\* Value::under: the (before, after) split of a function value
under_split(f) ==
  IF f.t = "fn" /\ Functions[f.n].under # <<>>
  THEN Some(<<Fn(Functions[f.n].under[1]), Fn(Functions[f.n].under[2])>>)
  ELSE None

\* the primitive-backed function of a primitive
prim_fn(p) ==
  Fn(CHOOSE i \in FnIds : Functions[i].kind = "prim" /\ Functions[i].prim = p)

\* Function::compose(f, g): the function that runs g, then f
compose(f, g) ==
  Fn(CHOOSE i \in FnIds :
       /\ Functions[i].kind = "comp"
       /\ Functions[i].f = f.n
       /\ Functions[i].g = g.n)

RECURSIVE invert_same_order(_)
invert_same_order(f) ==
  IF f.t # "fn" THEN None
  ELSE
    LET d == Functions[f.n]
    IN CASE d.kind = "prim" ->
              IF inverse(d.prim) = None THEN None
              ELSE Some(prim_fn(inverse(d.prim)[1]))
         [] d.kind = "comp" ->
              LET inv_f == invert_same_order(Fn(d.f))
                  inv_g == invert_same_order(Fn(d.g))
              IN IF inv_f = None \/ inv_g = None THEN None
                 ELSE Some(compose(inv_f[1], inv_g[1]))
         [] d.kind = "const" -> None

RECURSIVE invert(_)
\* Value::invert: the inverse a function derives, if it derives one; a
\* value that is no function is a constant
invert(f) ==
  IF f.t # "fn" THEN None
  ELSE
    LET d == Functions[f.n]
    IN CASE d.kind = "prim" ->
              IF inverse(d.prim) = None THEN None
              ELSE Some(prim_fn(inverse(d.prim)[1]))
         [] d.kind = "comp" ->
              LET inv_f == invert(Fn(d.f))
                  inv_g == invert(Fn(d.g))
              IN IF inv_f = None \/ inv_g = None THEN None
                 ELSE Some(compose(inv_g[1], inv_f[1]))
         [] d.kind = "const" -> None

RECURSIVE run(_, _), call(_, _)

(***************************************************************************)
(* Primitive::run, one operator per arm of the match.                       *)
(***************************************************************************)
run_break_same_level(e) ==
  IF e.stack = <<>> THEN underflow(e)
  ELSE
    LET n == as_nat(top(e))
        e1 == popped(e)
    IN IF n = None THEN [e1 EXCEPT !.err = ErrRun(MsgNotNat, e.span)]
       ELSE IF n[1] > 0 THEN [e1 EXCEPT !.err = ErrBreak(n[1], e.span)]
       ELSE e1

run_break(e) ==
  IF e.stack = <<>> THEN underflow(e)
  ELSE
    LET n == as_nat(top(e))
        e1 == popped(e)
    IN IF n = None THEN [e1 EXCEPT !.err = ErrRun(MsgNotNat, e.span)]
       ELSE IF n[1] > 0 THEN [e1 EXCEPT !.err = ErrBreak(n[1] - 1, e.span)]
       ELSE e1

run_gap(e) ==
  IF e.stack = <<>> THEN underflow(e)
  ELSE
    LET f == top(e)
        e1 == popped(e)
    IN IF e1.stack = <<>> THEN underflow(e1)
       ELSE call(f, popped(e1))

run_dip_push_first(e) ==
  IF e.stack = <<>> THEN underflow(e)
  ELSE
    LET f == top(e)
        e1 == popped(e)
    IN IF e1.stack = <<>> THEN underflow(e1)
       ELSE call(f, e1)

run_dip(e) ==
  IF e.stack = <<>> THEN underflow(e)
  ELSE
    LET f == top(e)
        e1 == popped(e)
    IN IF e1.stack = <<>> THEN underflow(e1)
       ELSE
         LET x == top(e1)
             e2 == call(f, popped(e1))
         IN IF ~is_ok(e2) THEN e2 ELSE push(e2, x)

run_under_body_first(e) ==
  IF e.stack = <<>> THEN underflow(e)
  ELSE
    LET f == top(e)
        e1 == popped(e)
    IN IF e1.stack = <<>> THEN underflow(e1)
       ELSE
         LET g == top(e1)
             e2 == popped(e1)
             split == under_split(f)
         IN IF split = None THEN [e2 EXCEPT !.err = ErrRun(MsgNoInverse, e.span)]
            ELSE
              LET e3 == call(g, e2) IN
              IF ~is_ok(e3) THEN e3
              ELSE
                LET e4 == call(split[1][1], e3) IN
                IF ~is_ok(e4) THEN e4 ELSE call(split[1][2], e4)

run_under(e) ==
  IF e.stack = <<>> THEN underflow(e)
  ELSE
    LET f == top(e)
        e1 == popped(e)
    IN IF e1.stack = <<>> THEN underflow(e1)
       ELSE
         LET g == top(e1)
             e2 == popped(e1)
             split == under_split(f)
         IN IF split = None THEN [e2 EXCEPT !.err = ErrRun(MsgNoInverse, e.span)]
            ELSE
              LET f_before == split[1][1]
                  f_after == split[1][2]
                  e3 == call(f_before, e2)
              IN IF ~is_ok(e3) THEN e3
                 ELSE
                   LET e4 == call(g, e3) IN
                   IF ~is_ok(e4) THEN e4 ELSE call(f_after, e4)

run_try_no_truncate(e) ==
  IF e.stack = <<>> THEN underflow(e)
  ELSE
    LET f == top(e)
        e1 == popped(e)
    IN IF e1.stack = <<>> THEN underflow(e1)
       ELSE
         LET handler == top(e1)
             e2 == popped(e1)
             backup == clone_stack_top(e2, sig_args(f))
             e3 == call(f, e2)
         IN IF is_ok(e3) THEN e3
            ELSE call(handler,
                      push_all(push([e3 EXCEPT !.err = Ok], e3.err.val), backup))

run_try(e) ==
  IF e.stack = <<>> THEN underflow(e)
  ELSE
    LET f == top(e)
        e1 == popped(e)
    IN IF e1.stack = <<>> THEN underflow(e1)
       ELSE
         LET handler == top(e1)
             e2 == popped(e1)
             f_args == sig_args(f)
             backup == clone_stack_top(e2, f_args)
             bottom == saturating_sub(Len(e2.stack), f_args)
             e3 == call(f, e2)
         IN IF is_ok(e3) THEN e3
            ELSE
              LET e4 == truncate_stack([e3 EXCEPT !.err = Ok], bottom)
                  e5 == push(e4, e3.err.val)
                  e6 == push_all(e5, backup)
              IN call(handler, e6)

run_assert_propagate(e) ==
  IF e.stack = <<>> THEN underflow(e)
  ELSE
    LET msg == top(e)
        e1 == popped(e)
    IN IF e1.stack = <<>> THEN underflow(e1)
       ELSE
         LET cond == top(e1)
             e2 == popped(e1)
         IN IF as_nat(cond) = None THEN [e2 EXCEPT !.err = ErrRun(MsgNotNat, e.span)]
            ELSE IF as_nat(cond)[1] # 1 THEN [e2 EXCEPT !.err = ErrThrow(msg, e.span)]
            ELSE e2

run_assert(e) ==
  IF e.stack = <<>> THEN underflow(e)
  ELSE
    LET msg == top(e)
        e1 == popped(e)
    IN IF e1.stack = <<>> THEN underflow(e1)
       ELSE
         LET cond == top(e1)
             e2 == popped(e1)
         IN IF ~(as_nat(cond) # None /\ as_nat(cond)[1] = 1)
            THEN [e2 EXCEPT !.err = ErrThrow(msg, e.span)]
            ELSE e2

\* the reconciliation functions of the value layer (Value::unkeep, untake,
\* undrop, unpick, unselect): the original with the selected part replaced
\* by the result, or a mismatch failure when the selector selects nothing
reconcile(from, index, into) ==
  IF index.t = "num" THEN Some(into) ELSE None

\* the record of one call of a reconciliation function
ext_call(fname, from, index, into) ==
  [fn |-> fname, args |-> <<from, index, into>>]

run_unselect_index_last(e) ==
  IF e.stack = <<>> THEN underflow(e)
  ELSE
    LET from == top(e)
        e1 == popped(e)
    IN IF e1.stack = <<>> THEN underflow(e1)
       ELSE
         LET into == top(e1)
             e2 == popped(e1)
         IN IF e2.stack = <<>> THEN underflow(e2)
            ELSE
              LET index == top(e2)
                  e3 == [popped(e2) EXCEPT
                           !.ext = Append(@, ext_call("unselect", from, index, into))]
                  res == reconcile(from, index, into)
              IN IF res = None THEN [e3 EXCEPT !.err = ErrRun(MsgMismatch, e.span)]
                 ELSE push(e3, res[1])

run_unkeep(e) ==
  IF e.stack = <<>> THEN underflow(e)
  ELSE
    LET from == top(e)
        e1 == popped(e)
    IN IF e1.stack = <<>> THEN underflow(e1)
       ELSE
         LET counts == top(e1)
             e2 == popped(e1)
         IN IF e2.stack = <<>> THEN underflow(e2)
            ELSE
              LET into == top(e2)
                  e3 == [popped(e2) EXCEPT
                           !.ext = Append(@, ext_call("unkeep", from, counts, into))]
                  res == reconcile(from, counts, into)
              IN IF res = None THEN [e3 EXCEPT !.err = ErrRun(MsgMismatch, e.span)]
                 ELSE push(e3, res[1])

run_untake(e) ==
  IF e.stack = <<>> THEN underflow(e)
  ELSE
    LET from == top(e)
        e1 == popped(e)
    IN IF e1.stack = <<>> THEN underflow(e1)
       ELSE
         LET index == top(e1)
             e2 == popped(e1)
         IN IF e2.stack = <<>> THEN underflow(e2)
            ELSE
              LET into == top(e2)
                  e3 == [popped(e2) EXCEPT
                           !.ext = Append(@, ext_call("untake", from, index, into))]
                  res == reconcile(from, index, into)
              IN IF res = None THEN [e3 EXCEPT !.err = ErrRun(MsgMismatch, e.span)]
                 ELSE push(e3, res[1])

run_undrop(e) ==
  IF e.stack = <<>> THEN underflow(e)
  ELSE
    LET from == top(e)
        e1 == popped(e)
    IN IF e1.stack = <<>> THEN underflow(e1)
       ELSE
         LET index == top(e1)
             e2 == popped(e1)
         IN IF e2.stack = <<>> THEN underflow(e2)
            ELSE
              LET into == top(e2)
                  e3 == [popped(e2) EXCEPT
                           !.ext = Append(@, ext_call("undrop", from, index, into))]
                  res == reconcile(from, index, into)
              IN IF res = None THEN [e3 EXCEPT !.err = ErrRun(MsgMismatch, e.span)]
                 ELSE push(e3, res[1])

run_unpick(e) ==
  IF e.stack = <<>> THEN underflow(e)
  ELSE
    LET from == top(e)
        e1 == popped(e)
    IN IF e1.stack = <<>> THEN underflow(e1)
       ELSE
         LET index == top(e1)
             e2 == popped(e1)
         IN IF e2.stack = <<>> THEN underflow(e2)
            ELSE
              LET into == top(e2)
                  e3 == [popped(e2) EXCEPT
                           !.ext = Append(@, ext_call("unpick", from, index, into))]
                  res == reconcile(from, index, into)
              IN IF res = None THEN [e3 EXCEPT !.err = ErrRun(MsgMismatch, e.span)]
                 ELSE push(e3, res[1])

run_unselect(e) ==
  IF e.stack = <<>> THEN underflow(e)
  ELSE
    LET from == top(e)
        e1 == popped(e)
    IN IF e1.stack = <<>> THEN underflow(e1)
       ELSE
         LET index == top(e1)
             e2 == popped(e1)
         IN IF e2.stack = <<>> THEN underflow(e2)
            ELSE
              LET into == top(e2)
                  e3 == [popped(e2) EXCEPT
                           !.ext = Append(@, ext_call("unselect", from, index, into))]
                  res == reconcile(from, index, into)
              IN IF res = None THEN [e3 EXCEPT !.err = ErrRun(MsgMismatch, e.span)]
                 ELSE push(e3, res[1])

\* the kinds of value, in the order of their codes
Kinds == <<"num", "str", "fn", "const">>

kind_index(t) == CHOOSE i \in 1..Len(Kinds) : Kinds[i] = t

\* a value as the payload a constant function owns, and back
value_code(v) == Len(Kinds) * v.n + (kind_index(v.t) - 1)

value_of_code(c) == [t |-> Kinds[(c % Len(Kinds)) + 1], n |-> c \div Len(Kinds)]

\* Function::constant(val): the function that pushes val
constant(val) == [t |-> "const", n |-> value_code(val)]

\* Value::as_function
as_function(v) == IF v.t \in {"fn", "const"} THEN Some(v) ELSE None

\* Function::as_constant
function_as_constant(f) ==
  IF f.t = "const" THEN Some(value_of_code(f.n))
  ELSE IF Functions[f.n].kind = "const" THEN Some(Functions[f.n].val)
  ELSE None

run_box(e) ==
  IF e.stack = <<>> THEN underflow(e)
  ELSE
    LET val == top(e)
        e1 == popped(e)
    IN push(e1, constant(val))

run_unbox_unchanged(e) ==
  IF e.stack = <<>> THEN underflow(e)
  ELSE
    LET val == top(e)
        e1 == popped(e)
    IN push(e1, val)

run_unbox(e) ==
  IF e.stack = <<>> THEN underflow(e)
  ELSE
    LET val == top(e)
        e1 == popped(e)
        con == IF as_function(val) = None THEN None
               ELSE function_as_constant(as_function(val)[1])
    IN push(e1, IF con # None THEN con[1] ELSE val)

run_eta(e) == push(e, Num(PI \div 2))

run_pi(e) == push(e, Num(PI))

run_tau(e) == push(e, Num(TAU))

run_infinity(e) == push(e, Num(INFINITY))

\* Identity: env.touch_array_stack() returns no result to propagate and
\* moves no operand
run_identity(e) == e

run_dup(e) ==
  IF e.stack = <<>> THEN underflow(e)
  ELSE
    LET x == top(e)
        e1 == popped(e)
    IN push(push(e1, x), x)

run_flip_restoring(e) ==
  IF e.stack = <<>> THEN underflow(e)
  ELSE
    LET a == top(e)
        e1 == popped(e)
    IN IF e1.stack = <<>> THEN underflow(e)
       ELSE
         LET b == top(e1)
             e2 == popped(e1)
         IN push(push(e2, a), b)

run_flip(e) ==
  IF e.stack = <<>> THEN underflow(e)
  ELSE
    LET a == top(e)
        e1 == popped(e)
    IN IF e1.stack = <<>> THEN underflow(e1)
       ELSE
         LET b == top(e1)
             e2 == popped(e1)
         IN push(push(e2, a), b)

run_over(e) ==
  IF e.stack = <<>> THEN underflow(e)
  ELSE
    LET a == top(e)
        e1 == popped(e)
    IN IF e1.stack = <<>> THEN underflow(e1)
       ELSE
         LET b == top(e1)
             e2 == popped(e1)
         IN push(push(push(e2, b), a), b)

run_pop(e) ==
  IF e.stack = <<>> THEN underflow(e) ELSE popped(e)

run_roll_as_unroll(e) ==
  IF e.stack = <<>> THEN underflow(e)
  ELSE
    LET a == top(e)
        e1 == popped(e)
    IN IF e1.stack = <<>> THEN underflow(e1)
       ELSE
         LET b == top(e1)
             e2 == popped(e1)
         IN IF e2.stack = <<>> THEN underflow(e2)
            ELSE
              LET c == top(e2)
                  e3 == popped(e2)
              IN push(push(push(e3, b), a), c)

run_roll(e) ==
  IF e.stack = <<>> THEN underflow(e)
  ELSE
    LET a == top(e)
        e1 == popped(e)
    IN IF e1.stack = <<>> THEN underflow(e1)
       ELSE
         LET b == top(e1)
             e2 == popped(e1)
         IN IF e2.stack = <<>> THEN underflow(e2)
            ELSE
              LET c == top(e2)
                  e3 == popped(e2)
              IN push(push(push(e3, a), c), b)

run_unroll(e) ==
  IF e.stack = <<>> THEN underflow(e)
  ELSE
    LET a == top(e)
        e1 == popped(e)
    IN IF e1.stack = <<>> THEN underflow(e1)
       ELSE
         LET b == top(e1)
             e2 == popped(e1)
         IN IF e2.stack = <<>> THEN underflow(e2)
            ELSE
              LET c == top(e2)
                  e3 == popped(e2)
              IN push(push(push(e3, b), a), c)


\* Uiua::with_fill(fill, |env| env.call(f)): the fill value is installed,
\* the body is called, and the fill value in effect before is put back
\* whatever the outcome of the body
with_fill_keep_on_failure(e, fill, f) ==
  LET r == call(f, [e EXCEPT !.fill = Some(fill)])
  IN IF is_ok(r) THEN [r EXCEPT !.fill = e.fill] ELSE r

with_fill(e, fill, f) ==
  LET r == call(f, [e EXCEPT !.fill = Some(fill)])
  IN [r EXCEPT !.fill = e.fill]

run_fill(e) ==
  IF e.stack = <<>> THEN underflow(e)
  ELSE
    LET fill == top(e)
        e1 == popped(e)
    IN IF e1.stack = <<>> THEN underflow(e1)
       ELSE
         LET f == top(e1)
             e2 == popped(e1)
         IN with_fill(e2, fill, f)

run_invert(e) ==
  IF e.stack = <<>> THEN underflow(e)
  ELSE
    LET f == top(e)
        e1 == popped(e)
        inv_f == invert(f)
    IN IF inv_f = None THEN [e1 EXCEPT !.err = ErrRun(MsgNoInverse, e.span)]
       ELSE call(inv_f[1], e1)

(***************************************************************************)
(* Random numbers.  The 64-bit patterns and the generator states are        *)
(* reduced to the residues modulo RngMod.                                   *)
(***************************************************************************)
RngMod == 3

\* f64::to_bits and f64::from_bits: a bijection between the numbers and
\* the bit patterns, and its inverse
to_bits(x) == (RngMod - 1) - (x % RngMod)

from_bits(b) == (RngMod - 1) - (b % RngMod)

\* SmallRng::seed_from_u64: the generator state a seed determines
seed_from_u64(b) == (2 * b + 1) % RngMod

\* one draw of the generator: the output and the state it leaves
next_u64(s) == [out |-> (s + 1) % RngMod, st |-> (s + 1) % RngMod]

\* rng.gen::<f64>() and rng.gen::<u64>()
gen_f64(s) == [out |-> from_bits(next_u64(s).out), st |-> next_u64(s).st]

gen_u64(s) == next_u64(s)

\* the thread-local RNG, seeded from the clock on its first use
thread_rng(e) ==
  IF e.rng = None THEN seed_from_u64(to_bits(e.clock)) ELSE e.rng[1]

run_rand(e) ==
  LET d == gen_f64(thread_rng(e))
  IN push([e EXCEPT !.rng = Some(d.st)], Num(d.out))

run_gen_thread_rng(e) ==
  IF e.stack = <<>> THEN underflow(e)
  ELSE
    LET seed == top(e)
        e1 == popped(e)
    IN IF as_num(seed) = None THEN [e1 EXCEPT !.err = ErrRun(MsgNotNum, e.span)]
       ELSE
         LET val == gen_f64(thread_rng(e))
             next_seed == gen_u64(val.st)
         IN push(push([e1 EXCEPT !.rng = Some(next_seed.st)], Num(val.out)),
                 Num(from_bits(next_seed.out)))

run_gen(e) ==
  IF e.stack = <<>> THEN underflow(e)
  ELSE
    LET seed == top(e)
        e1 == popped(e)
    IN IF as_num(seed) = None THEN [e1 EXCEPT !.err = ErrRun(MsgNotNum, e.span)]
       ELSE
         LET rng == seed_from_u64(to_bits(as_num(seed)[1]))
             val == gen_f64(rng)
             next_seed == gen_u64(val.st)
         IN push(push(e1, Num(val.out)), Num(from_bits(next_seed.out)))

\* the rows of the modelled values are single rows: a shuffle leaves them
run_deal(e) ==
  IF e.stack = <<>> THEN underflow(e)
  ELSE
    LET seed == top(e)
        e1 == popped(e)
    IN IF as_num(seed) = None THEN [e1 EXCEPT !.err = ErrRun(MsgNotNum, e.span)]
       ELSE IF e1.stack = <<>> THEN underflow(e1)
       ELSE
         LET arr == top(e1)
         IN push(popped(e1), arr)

(***************************************************************************)
(* Units of concurrency.                                                    *)
(***************************************************************************)
\* the opaque handle of the n-th spawned unit
Handle(n) == [t |-> "handle", n |-> n]

\* Uiua::spawn(capture_count, |env| env.call(f)): a new unit that owns
\* copies of the top capture_count operands and will call f on them
spawn(e, capture_count, f) ==
  IF Len(e.stack) < capture_count
  THEN [e EXCEPT !.err = ErrRun(MsgUnderflow, e.span)]
  ELSE [e EXCEPT !.threads =
          Append(@, [f |-> f, stack |-> clone_stack_top(e, capture_count),
                     status |-> "running", err |-> Ok])]

run_spawn(e) ==
  IF e.stack = <<>> THEN underflow(e)
  ELSE
    LET f == top(e)
        e1 == spawn(popped(e), sig_args(f), f)
    IN IF ~is_ok(e1) THEN e1 ELSE push(e1, Handle(Len(e1.threads)))

\* Uiua::wait blocks while this is false
joinable_always(e, handle) == TRUE

joinable(e, handle) == e.threads[handle.n].status = "finished"

\* Uiua::wait(handle) when it stops blocking: the results of the unit are
\* pushed, or its failure is returned
wait(e, handle) ==
  LET unit == e.threads[handle.n]
  IN IF unit.err.kind = "ok" THEN push_all(e, unit.stack)
     ELSE [e EXCEPT !.err = unit.err]
\* the context a callee starts in: its own record of calls, one level deeper
callee_env(e) == [e EXCEPT !.log = <<>>, !.depth = @ + 1]

\* the caller's context after a call of f that found e and left r: the call
\* is recorded with the stack it found (at), the context it left (out, err),
\* its nesting depth and the fill value before and after it
recorded(f, e, r) ==
  [r EXCEPT !.log = e.log \o <<[f |-> f, at |-> e.stack, out |-> r.stack,
                                err |-> r.err, depth |-> e.depth,
                                fill |-> e.fill, fill_out |-> r.fill]>> \o r.log,
            !.depth = e.depth]

\* the second part of a composed function: called when the first succeeded
then_call(f, r) == IF ~is_ok(r) THEN r ELSE call(f, r)

\* Uiua::call: a function value is run on the context, any other value is
\* pushed; a composed function runs g, then f.
call(f, e) ==
  recorded(f, e,
    IF f.t # "fn" THEN push(callee_env(e), f)
    ELSE IF Functions[f.n].kind = "prim"
         THEN run(Functions[f.n].prim, callee_env(e))
    ELSE IF Functions[f.n].kind = "comp"
         THEN then_call(Fn(Functions[f.n].f),
                        call(Fn(Functions[f.n].g), callee_env(e)))
    ELSE IF Functions[f.n].kind = "const"
         THEN push(callee_env(e), Functions[f.n].val)
    ELSE user_call(Functions[f.n], callee_env(e)))

run(p, e) ==
  CASE p = "Eta" -> run_eta(e)
    [] p = "Pi" -> run_pi(e)
    [] p = "Tau" -> run_tau(e)
    [] p = "Infinity" -> run_infinity(e)
    [] p = "Identity" -> run_identity(e)
    [] p = "Box" -> run_box(e)
    [] p = "Unbox" -> run_unbox(e)
    [] p = "Break" -> run_break(e)
    [] p = "Gap" -> run_gap(e)
    [] p = "Dip" -> run_dip(e)
    [] p = "Under" -> run_under(e)
    [] p = "Try" -> run_try(e)
    [] p = "Assert" -> run_assert(e)
    [] p = "Unkeep" -> run_unkeep(e)
    [] p = "Untake" -> run_untake(e)
    [] p = "Undrop" -> run_undrop(e)
    [] p = "Unpick" -> run_unpick(e)
    [] p = "Unselect" -> run_unselect(e)
    [] p = "Dup" -> run_dup(e)
    [] p = "Flip" -> run_flip(e)
    [] p = "Over" -> run_over(e)
    [] p = "Pop" -> run_pop(e)
    [] p = "Roll" -> run_roll(e)
    [] p = "Unroll" -> run_unroll(e)
    [] p = "Fill" -> run_fill(e)
    [] p = "Invert" -> run_invert(e)
    [] p = "Rand" -> run_rand(e)
    [] p = "Gen" -> run_gen(e)
    [] p = "Deal" -> run_deal(e)
    [] p = "Spawn" -> run_spawn(e)

(***************************************************************************)
(* Dispatcher specification: a program pushes values and runs primitives    *)
(* on the operand stack until an instruction fails.                         *)
(***************************************************************************)
\* largest stack a value is pushed on
MaxStack == 4
\* largest number of function values on the stack when one more is pushed
MaxFns == 2

DataValues == {Num(0), Num(1), Str(0)}

\* the function values of the dispatcher programs: the user-defined
\* functions and the function of Break
DispFns == {i \in FnIds : Functions[i].kind = "user" \/ Functions[i].prim = "Break"}

Values == DataValues \cup {Fn(i) : i \in DispFns}

\* the span of the instruction being run (Uiua::span), an opaque token
Spans == {1}

\* the primitives the modelled programs run
Runnable == {"Break", "Gap", "Dip", "Under", "Try", "Assert"}

fn_count(s) == Cardinality({i \in 1..Len(s) : s[i].t = "fn"})

Init ==
  /\ stack = <<>>
  /\ last = NoLast
  /\ input = <<>>
  /\ query = NoCall
  /\ next_tag = 0
  /\ units = <<>>

\* an instruction that pushes a value; the program first pushes its operands
Push ==
  /\ last = NoLast
  /\ Len(stack) < MaxStack
  /\ \E v \in Values :
       /\ v.t = "fn" => fn_count(stack) < MaxFns
       /\ stack' = Append(stack, v)
  /\ last' = NoLast
  /\ UNCHANGED <<input, query, next_tag, units>>

\* the context an instruction finds: the operand stack, no failure, no
\* call made yet, the span of the instruction, no fill value, the
\* thread-local RNG not yet seeded, the wall clock, no unit spawned
env_of(s, sp) ==
  [stack |-> s, err |-> Ok, log |-> <<>>, depth |-> 0, span |-> sp,
   ext |-> <<>>, fill |-> None, rng |-> None, clock |-> 0, threads |-> <<>>]

\* what is remembered of the last instruction run: the primitive, the stack
\* it found, its outcome, the calls it made, and the fill value it left
last_of(p, s, r) ==
  [prim |-> p, pre |-> s, err |-> r.err, log |-> r.log, span |-> r.span,
   ext |-> r.ext, fill |-> r.fill]

\* an instruction that runs a primitive: Primitive::run(p, env)
Exec ==
  /\ last.err.kind = "ok"
  /\ \E p \in Runnable : \E sp \in Spans :
       LET r == run(p, env_of(stack, sp))
       IN /\ stack' = r.stack
          /\ last' = last_of(p, stack, r)
  /\ UNCHANGED <<input, query, next_tag, units>>

Next == Push \/ Exec

Spec == Init /\ [][Next]_vars

(***************************************************************************)
(* Operand specification: a program pushes plain values and runs the        *)
(* primitives that only move or reconcile operands.                         *)
(***************************************************************************)
OpsValues == {Num(0), Num(1), Num(2), Str(0)}

OpsRunnable ==
  {"Break", "Dup", "Flip", "Over", "Pop", "Roll", "Unroll",
   "Unkeep", "Untake", "Undrop", "Unpick", "Unselect"}

\* an instruction that pushes a plain value
PushData ==
  /\ last = NoLast
  /\ Len(stack) < MaxStack
  /\ \E v \in OpsValues : stack' = Append(stack, v)
  /\ last' = NoLast
  /\ UNCHANGED <<input, query, next_tag, units>>

\* an instruction that runs an operand primitive
ExecOps ==
  /\ last.err.kind = "ok"
  /\ Len(stack) <= MaxStack
  /\ \E p \in OpsRunnable : \E sp \in Spans :
       LET r == run(p, env_of(stack, sp))
       IN /\ stack' = r.stack
          /\ last' = last_of(p, stack, r)
  /\ UNCHANGED <<input, query, next_tag, units>>

NextOps == PushData \/ ExecOps

SpecOps == Init /\ [][NextOps]_vars

(***************************************************************************)
(* Fill specification: a program pushes fill values and functions, among    *)
(* them the function of Fill itself, and runs Fill.                         *)
(***************************************************************************)
\* the functions a Fill program uses: one that succeeds, those that fail or
\* raise Break, and Fill
FillFns ==
  {i \in FnIds : \/ Functions[i].prim \in {"Break", "Fill"}
                 \/ Functions[i].kind = "user" /\ Functions[i].args # 1}

FillValues == {Num(0), Num(1)} \cup {Fn(i) : i \in FillFns}

PushFill ==
  /\ last = NoLast
  /\ Len(stack) < MaxStack
  /\ \E v \in FillValues : stack' = Append(stack, v)
  /\ last' = NoLast
  /\ UNCHANGED <<input, query, next_tag, units>>

ExecFill ==
  /\ last.err.kind = "ok"
  /\ \E sp \in Spans :
       LET r == run("Fill", env_of(stack, sp))
       IN /\ stack' = r.stack
          /\ last' = last_of("Fill", stack, r)
  /\ UNCHANGED <<input, query, next_tag, units>>

NextFill == PushFill \/ ExecFill

SpecFill == Init /\ [][NextFill]_vars

(***************************************************************************)
(* Invert specification: a program pushes values and primitive-backed,      *)
(* composed and constant functions, and runs Invert.                        *)
(***************************************************************************)
InvertFns ==
  {i \in FnIds : \/ Functions[i].kind \in {"comp", "const"}
                 \/ Functions[i].prim \in {"Roll", "Dup"}}

InvertValues == {Num(0), Num(1)} \cup {Fn(i) : i \in InvertFns}

PushInvert ==
  /\ last = NoLast
  /\ Len(stack) < MaxStack
  /\ \E v \in InvertValues : stack' = Append(stack, v)
  /\ last' = NoLast
  /\ UNCHANGED <<input, query, next_tag, units>>

ExecInvert ==
  /\ last.err.kind = "ok"
  /\ \E sp \in Spans :
       LET r == run("Invert", env_of(stack, sp))
       IN /\ stack' = r.stack
          /\ last' = last_of("Invert", stack, r)
  /\ UNCHANGED <<input, query, next_tag, units>>

NextInvert == PushInvert \/ ExecInvert

SpecInvert == Init /\ [][NextInvert]_vars

(***************************************************************************)
(* Properties of the dispatcher.  They read the record of the last          *)
(* instruction: the stack before it (pre), its outcome (err), and the calls *)
(* it made (log), each with the stack it found and the stack it left.       *)
(***************************************************************************)
\* the calls the instruction made itself (not those made by its callees)
toplog == SelectSeq(last.log, LAMBDA en : en.depth = 0)

\* the stack before the instruction without its top n values
pre_below(n) == SubSeq(last.pre, 1, Len(last.pre) - n)

\* the value n-th from the top of the stack before the instruction
pre_arg(n) == last.pre[Len(last.pre) + 1 - n]

\* a failure, as opposed to success and to the Break control signal
failed(err) == err.kind \in {"throw", "run"}

\* C2: when the guarded function raises Break, Try does not truncate the
\* stack, pushes no payload, does not call the handler, and the Break signal
\* leaves Try unchanged.
C2_BreakPassesTry ==
  (last.prim = "Try" /\ Len(toplog) >= 1 /\ toplog[1].err.kind = "break") =>
    /\ Len(toplog) = 1
    /\ last.err = toplog[1].err
    /\ stack = toplog[1].out

\* C3: Try on a function f of declared arity k with at least k operands:
\* if f fails, the handler is called on the stack below the k operands,
\* then the failure payload, then the k operands as they were before the
\* call; if f succeeds the handler is not called and nothing is pushed.
C3_TryLayout ==
  (last.prim = "Try" /\ Len(last.pre) >= 2
     /\ Len(last.pre) - 2 >= sig_args(pre_arg(1))) =>
    LET f == pre_arg(1)
        handler == pre_arg(2)
        base == pre_below(2)
        k == sig_args(f)
    IN /\ Len(toplog) >= 1
       /\ toplog[1].f = f
       /\ toplog[1].at = base
       /\ failed(toplog[1].err) =>
            /\ Len(toplog) = 2
            /\ toplog[2].f = handler
            /\ toplog[2].at = SubSeq(base, 1, Len(base) - k)
                                \o <<toplog[1].err.val>>
                                \o SubSeq(base, Len(base) - k + 1, Len(base))
            /\ stack = toplog[2].out
            /\ last.err = toplog[2].err
       /\ toplog[1].err.kind = "ok" =>
            /\ Len(toplog) = 1
            /\ stack = toplog[1].out
            /\ last.err = Ok

\* f of arity k >= 1 failed after leaving values above the stack below its
\* operands, which is not empty, and the handler was called
C3_Witness ==
  /\ last.prim = "Try"
  /\ Len(last.pre) >= 2
  /\ sig_args(pre_arg(1)) >= 1
  /\ Len(last.pre) - 2 > sig_args(pre_arg(1))
  /\ Len(toplog) = 2
  /\ failed(toplog[1].err)
  /\ Len(toplog[1].out) > Len(last.pre) - 2 - sig_args(pre_arg(1))

\* C6: Under pops f then g and calls before, g, after in that order, each
\* only after the one before it returned successfully; a failure of the
\* split derivation, of before or of g leaves Under with no further call.
C6_UnderOrder ==
  (last.prim = "Under" /\ Len(last.pre) >= 2) =>
    LET f == pre_arg(1)
        g == pre_arg(2)
        split == under_split(f)
        n == Len(toplog)
    IN IF split = None
       THEN toplog = <<>> /\ last.err.kind = "run" /\ last.err.val = MsgNoInverse
       ELSE /\ n \in 1..3
            /\ toplog[1].f = split[1][1]
            /\ toplog[1].at = pre_below(2)
            /\ n >= 2 => /\ toplog[1].err.kind = "ok"
                         /\ toplog[2].f = g
                         /\ toplog[2].at = toplog[1].out
            /\ n = 3 => /\ toplog[2].err.kind = "ok"
                        /\ toplog[3].f = split[1][2]
                        /\ toplog[3].at = toplog[2].out
            /\ n < 3 => toplog[n].err.kind # "ok"
            /\ last.err = toplog[n].err
            /\ stack = toplog[n].out

\* Under made its three calls, of three different functions, all successful
C6_Witness ==
  /\ last.prim = "Under"
  /\ Len(toplog) = 3
  /\ last.err = Ok
  /\ toplog[1].f # toplog[2].f
  /\ toplog[2].f # toplog[3].f
  /\ toplog[1].f # toplog[3].f
  /\ toplog[1].out # toplog[1].at
  /\ toplog[2].out # toplog[2].at

\* C8: Assert pops the message and the condition; it succeeds if the
\* condition is the natural number 1 and otherwise throws the message with
\* the current span; both operands are consumed and nothing else changes.
C8_Assert ==
  (last.prim = "Assert" /\ Len(last.pre) >= 2) =>
    LET msg == pre_arg(1)
        cond == pre_arg(2)
    IN /\ stack = pre_below(2)
       /\ last.log = <<>>
       /\ last.err = IF cond = Num(1) THEN Ok ELSE ErrThrow(msg, last.span)

\* Assert ran on a condition that is no natural number, above other values
C8_Witness ==
  /\ last.prim = "Assert"
  /\ Len(last.pre) >= 3
  /\ as_nat(pre_arg(2)) = None
  /\ last.err.kind = "throw"
  /\ last.err.val = pre_arg(1)
  /\ stack = pre_below(2)

\* C9: Dip pops f and the value x beneath it, calls f on the rest, and when
\* f succeeds pushes x above whatever f left; if f leaves the stack as it
\* found it, the stack after Dip is the stack before Dip without f.
C9_Dip ==
  (last.prim = "Dip" /\ Len(last.pre) >= 2) =>
    /\ Len(toplog) = 1
    /\ toplog[1].f = pre_arg(1)
    /\ toplog[1].at = pre_below(2)
    /\ last.err = toplog[1].err
    /\ toplog[1].err.kind = "ok" =>
         /\ stack = Append(toplog[1].out, pre_arg(2))
         /\ toplog[1].out = toplog[1].at => stack = pre_below(1)

\* Dip ran a function that consumed and produced values, and restored x
C9_Witness ==
  /\ last.prim = "Dip"
  /\ Len(last.pre) >= 3
  /\ last.err = Ok
  /\ Len(toplog) = 1
  /\ toplog[1].out # toplog[1].at
  /\ Len(toplog[1].out) > Len(toplog[1].at)
  /\ stack[Len(stack)] = pre_arg(2)

(***************************************************************************)
(* Properties of the operand primitives.                                    *)
(***************************************************************************)
MirroredUndo == {"Untake", "Undrop", "Unselect", "Unpick", "Unkeep"}

\* the reconciliation function that belongs to a mirrored undo primitive
reconciliation_of(p) ==
  CASE p = "Untake" -> "untake"
    [] p = "Undrop" -> "undrop"
    [] p = "Unselect" -> "unselect"
    [] p = "Unpick" -> "unpick"
    [] p = "Unkeep" -> "unkeep"

\* C12: a mirrored undo primitive run on at least three operands calls its
\* own reconciliation function once, with (result, selector, original) taken
\* from the top, second and third operand; when that succeeds exactly one
\* value is pushed in place of the three and the stack below is unchanged.
C12_MirroredUndo ==
  (last.prim \in MirroredUndo /\ Len(last.pre) >= 3) =>
    /\ last.ext = <<[fn |-> reconciliation_of(last.prim),
                     args |-> <<pre_arg(1), pre_arg(2), pre_arg(3)>>]>>
    /\ last.log = <<>>
    /\ last.err.kind = "ok" =>
         /\ Len(stack) = Len(last.pre) - 2
         /\ SubSeq(stack, 1, Len(stack) - 1) = pre_below(3)

C12_Witness ==
  /\ last.prim = "Unselect"
  /\ Len(last.pre) = 4
  /\ pre_arg(1) # pre_arg(3)
  /\ pre_arg(2) # pre_arg(3)
  /\ pre_arg(1) # pre_arg(2)
  /\ last.err.kind = "ok"
  /\ Len(last.ext) = 1
  /\ Len(stack) = 2
  /\ stack[1] = last.pre[1]

\* C18: Break pops one natural number n; it raises the Break signal, which
\* is no failure, exactly when n > 0, and the signal carries level n - 1;
\* with n = 0 it returns normally; in both cases only the operand is gone.
C18_Break ==
  (last.prim = "Break" /\ Len(last.pre) >= 1 /\ as_nat(pre_arg(1)) # None) =>
    LET n == as_nat(pre_arg(1))[1]
    IN /\ stack = pre_below(1)
       /\ last.log = <<>>
       /\ n > 0 => /\ last.err = ErrBreak(n - 1, last.span)
                   /\ ~failed(last.err)
       /\ n = 0 => last.err = Ok

C18_Witness ==
  /\ last.prim = "Break"
  /\ Len(last.pre) = 2
  /\ pre_arg(1) = Num(2)
  /\ last.err.kind = "break"
  /\ last.err.lvl = 1
  /\ stack = pre_below(1)

\* the stack written top first
top_first(s) == [i \in 1..Len(s) |-> s[Len(s) + 1 - i]]

\* the reorder a stack-control primitive makes of the operands a, b, c
\* (top first), as the claim lists it
reorder(p, a, b, c) ==
  CASE p = "Dup" -> <<a, a>>
    [] p = "Flip" -> <<b, a>>
    [] p = "Over" -> <<b, a, b>>
    [] p = "Pop" -> <<>>
    [] p = "Roll" -> <<b, c, a>>
    [] p = "Unroll" -> <<c, a, b>>

\* the number of operands a stack-control primitive pops
pops_of(p) ==
  CASE p \in {"Dup", "Pop"} -> 1
    [] p \in {"Flip", "Over"} -> 2
    [] p \in {"Roll", "Unroll"} -> 3

StackControl == {"Dup", "Flip", "Over", "Pop", "Roll", "Unroll"}

\* C19: a stack-control primitive run on a stack a, b, c, rest (top first)
\* succeeds and leaves the reorder of its operands above the unchanged
\* rest; the numbers popped and pushed depend on the primitive only.
C19_StackControl ==
  (last.prim \in StackControl /\ Len(last.pre) >= 3) =>
    LET p == last.prim
        k == pops_of(p)
    IN /\ last.err = Ok
       /\ last.log = <<>>
       /\ top_first(stack) =
            reorder(p, pre_arg(1), pre_arg(2), pre_arg(3))
              \o top_first(pre_below(k))

C19_Witness ==
  /\ last.prim = "Roll"
  /\ Len(last.pre) = 4
  /\ pre_arg(1) # pre_arg(2)
  /\ pre_arg(2) # pre_arg(3)
  /\ pre_arg(1) # pre_arg(3)
  /\ top_first(stack) = <<pre_arg(2), pre_arg(3), pre_arg(1), pre_arg(4)>>

\* C13: Fill run on a fill value and a body calls the body once with the
\* fill value installed, and every call made meanwhile, the body's and a
\* nested Fill's, leaves the fill value it found; after Fill, on success,
\* failure or Break, the fill value is the one in effect before.
C13_FillScoped ==
  (last.prim = "Fill" /\ Len(last.pre) >= 2) =>
    /\ last.fill = None
    /\ Len(toplog) = 1
    /\ toplog[1].f = pre_arg(2)
    /\ toplog[1].fill = Some(pre_arg(1))
    /\ \A i \in 1..Len(last.log) : last.log[i].fill_out = last.log[i].fill

C13_Witness ==
  /\ last.prim = "Fill"
  /\ failed(last.err)
  /\ last.fill = None
  /\ Len(last.log) = 2
  /\ last.log[1].f.t = "fn"
  /\ Functions[last.log[1].f.n].prim = "Fill"
  /\ last.log[1].fill = Some(Num(1))
  /\ last.log[2].fill = Some(Num(0))
  /\ last.log[2].fill_out = Some(Num(0))
  /\ failed(last.log[2].err)

\* the inverse the claim gives for a function: the table entry for a
\* primitive-backed function, compose(inverse(g), inverse(f)) for
\* composed(f, g), none for a constant
claimed_inverse(f) ==
  IF f.t # "fn" THEN None
  ELSE
    LET d == Functions[f.n]
    IN CASE d.kind = "prim" ->
              IF inverse(d.prim) = None THEN None
              ELSE Some(prim_fn(inverse(d.prim)[1]))
         [] d.kind = "comp" ->
              IF invert(Fn(d.g)) = None \/ invert(Fn(d.f)) = None THEN None
              ELSE Some(compose(invert(Fn(d.g))[1], invert(Fn(d.f))[1]))
         [] d.kind = "const" -> None

\* C14: Invert pops one function; when the function has an inverse, that
\* inverse is called exactly once on the stack below and its outcome is
\* Invert's outcome; when it has none, Invert fails with the
\* no-inverse failure, calls nothing and leaves the stack below.
C14_Invert ==
  (last.prim = "Invert" /\ Len(last.pre) >= 1) =>
    LET inv == claimed_inverse(pre_arg(1))
    IN /\ inv # None =>
            /\ Len(toplog) = 1
            /\ toplog[1].f = inv[1]
            /\ toplog[1].at = pre_below(1)
            /\ stack = toplog[1].out
            /\ last.err = toplog[1].err
       /\ inv = None =>
            /\ last.log = <<>>
            /\ last.err = ErrRun(MsgNoInverse, last.span)
            /\ stack = pre_below(1)

C14_Witness ==
  /\ last.prim = "Invert"
  /\ Len(last.pre) = 4
  /\ pre_arg(1).t = "fn"
  /\ Functions[pre_arg(1).n].kind = "comp"
  /\ Functions[Functions[pre_arg(1).n].f].prim = "Flip"
  /\ Functions[Functions[pre_arg(1).n].g].prim = "Roll"
  /\ Len(toplog) = 1
  /\ Functions[toplog[1].f.n].kind = "comp"
  /\ Functions[Functions[toplog[1].f.n].f].prim = "Unroll"
  /\ Functions[Functions[toplog[1].f.n].g].prim = "Flip"
  /\ last.err = Ok
  /\ Len(last.log) = 3

\* the primitives that pop more than one operand before they push
MultiOperand == {"Flip", "Over", "Roll", "Unroll"} \cup MirroredUndo

\* the number of operands such a primitive pops
operands_of(p) == IF p \in {"Flip", "Over"} THEN 2 ELSE 3

\* C24: a multi-operand primitive run on fewer operands than it pops fails
\* with a stack underflow at pop number i, the first one that finds the
\* stack empty; the i-1 values popped before stay removed, nothing is pushed
\* and no reconciliation is called, so a stack that was not empty is
\* strictly shorter afterwards.
C24_UnderflowKeepsPops ==
  (last.prim \in MultiOperand /\ Len(last.pre) < operands_of(last.prim)) =>
    LET i == Len(last.pre) + 1
    IN /\ last.err = ErrRun(MsgUnderflow, last.span)
       /\ stack = SubSeq(last.pre, 1, Len(last.pre) - (i - 1))
       /\ last.ext = <<>>
       /\ last.pre # <<>> => Len(stack) < Len(last.pre)

\* Roll has failed at its third pop and the two values it popped are gone
C24_Witness ==
  /\ last.prim = "Roll"
  /\ Len(last.pre) = 2
  /\ last.err.kind = "run"
  /\ last.err.val = MsgUnderflow
  /\ stack = <<>>

(***************************************************************************)
(* Tag specification: concurrent execution units run Primitive::Tag, each   *)
(* on its own operand stack, on the one process-wide counter NEXT_TAG.      *)
(***************************************************************************)
\* number of concurrent execution units
NumUnits == 2
\* Tag is run while the counter is below this value
MaxTag == 5

UnitIds == 1..NumUnits

load_only(counter) == [old |-> counter, new |-> counter]

\* AtomicUsize::fetch_add(1): one atomic step that returns the previous
\* value and stores the incremented one
fetch_add(counter) == [old |-> counter, new |-> counter + 1]

InitTag ==
  /\ next_tag = 0
  /\ units = [u \in UnitIds |-> [pc |-> "idle", tag |-> 0, stack |-> <<>>]]
  /\ stack = <<>>
  /\ last = NoLast
  /\ input = <<>>
  /\ query = NoCall

\* "let tag = NEXT_TAG.fetch_add(1, Relaxed)" run by unit u
TagFetch(u) ==
  /\ units[u].pc = "idle"
  /\ next_tag < MaxTag
  /\ next_tag' = fetch_add(next_tag).new
  /\ units' = [units EXCEPT ![u].pc = "fetched", ![u].tag = fetch_add(next_tag).old]
  /\ UNCHANGED <<input, query, stack, last>>

\* "env.push(tag)" run by unit u
TagPush(u) ==
  /\ units[u].pc = "fetched"
  /\ units' = [units EXCEPT ![u].pc = "idle",
                            ![u].stack = Append(@, Num(units[u].tag))]
  /\ UNCHANGED <<input, query, stack, last, next_tag>>

NextTag == \E u \in UnitIds : TagFetch(u) \/ TagPush(u)

SpecTag == InitTag /\ [][NextTag]_vars

\* C7: no two Tag calls, on any units and under any interleaving, push the
\* same value, and the values one unit pushes are strictly increasing.
C7_TagsDistinct ==
  /\ \A u, v \in DOMAIN units :
       \A i \in 1..Len(units[u].stack) : \A j \in 1..Len(units[v].stack) :
         (u # v \/ i # j) => units[u].stack[i] # units[v].stack[j]
  /\ \A u \in DOMAIN units :
       \A i, j \in 1..Len(units[u].stack) :
         i < j => units[u].stack[i].n < units[u].stack[j].n

\* two units have pushed two tags each, their calls interleaved
C7_Witness ==
  \E u, v \in DOMAIN units :
    /\ u # v
    /\ Len(units[u].stack) >= 2
    /\ Len(units[v].stack) >= 2
    /\ units[u].stack[1].n < units[v].stack[1].n
    /\ units[v].stack[1].n < units[u].stack[2].n

(***************************************************************************)
(* Random-number specification: execution units, each a thread with its    *)
(* own stack and its own thread-local RNG, push seeds and run Rand, Gen     *)
(* and Deal in any interleaving.                                            *)
(***************************************************************************)
\* largest stack of a unit
MaxRngStack == 2

RngUnits == {1, 2}

Seeds == 0..(RngMod - 1)

RngRunnable == {"Rand", "Gen", "Deal"}

\* what a unit remembers of its latest Gen: the seed it popped, the pair it
\* pushed, and the change of the stack's length
gen_obs(pre, r) ==
  [seed |-> pre[Len(pre)], val |-> r.stack[Len(r.stack) - 1],
   next |-> r.stack[Len(r.stack)], grew |-> Len(r.stack) - Len(pre),
   below |-> SubSeq(r.stack, 1, Len(r.stack) - 2) = SubSeq(pre, 1, Len(pre) - 1)]

InitRng ==
  /\ units = [u \in RngUnits |-> [rng |-> None, stack |-> <<>>, ok |-> TRUE,
                                  gen |-> None]]
  /\ stack = <<>>
  /\ last = NoLast
  /\ input = <<>>
  /\ query = NoCall
  /\ next_tag = 0

\* unit u pushes a seed
PushSeed(u) ==
  /\ units[u].ok
  /\ Len(units[u].stack) < MaxRngStack
  /\ \E k \in Seeds : units' = [units EXCEPT ![u].stack = Append(@, Num(k))]
  /\ UNCHANGED <<input, query, stack, last, next_tag>>

\* the wall-clock values that make a difference to primitive p in unit u:
\* the clock is read when Rand seeds the thread-local RNG
Clocks(u, p) ==
  IF p = "Rand" /\ units[u].rng = None THEN Seeds ELSE {0}

\* unit u runs a primitive at some time of the wall clock
ExecRng(u) ==
  /\ units[u].ok
  /\ \E p \in RngRunnable : \E sp \in Spans : \E c \in Clocks(u, p) :
       LET r == run(p, [env_of(units[u].stack, sp) EXCEPT
                          !.rng = units[u].rng, !.clock = c])
       IN /\ Len(r.stack) <= MaxRngStack
          /\ units' = [units EXCEPT
               ![u].stack = r.stack,
               ![u].rng = r.rng,
               ![u].ok = is_ok(r),
               ![u].gen = IF p = "Gen" /\ is_ok(r)
                          THEN Some(gen_obs(units[u].stack, r)) ELSE @]
  /\ UNCHANGED <<input, query, stack, last, next_tag>>

NextRng == \E u \in RngUnits : PushSeed(u) \/ ExecRng(u)

SpecRng == InitRng /\ [][NextRng]_vars

\* C16: any two units whose latest Gen popped the same seed pushed the same
\* pair (value, then next seed on top), whatever Rand, Deal or Gen ran
\* before or in between; each Gen popped one operand and pushed two values.
C16_GenPure ==
  \A u, v \in RngUnits :
    (units[u].gen # None /\ units[v].gen # None) =>
      LET a == units[u].gen[1]
          b == units[v].gen[1]
      IN /\ a.grew = 1
         /\ a.below
         /\ a.seed = b.seed => (a.val = b.val /\ a.next = b.next)

C16_Witness ==
  /\ units[1].gen # None
  /\ units[2].gen # None
  /\ units[1].gen[1].seed = units[2].gen[1].seed
  /\ units[1].gen[1].val = units[2].gen[1].val
  /\ units[1].gen[1].next = units[2].gen[1].next
  /\ units[1].rng # None
  /\ units[2].rng = None

(***************************************************************************)
(* Spawn specification: the main unit pushes values, spawns units and       *)
(* waits for them; a spawned unit calls its function and finishes, unless   *)
(* the function never returns.  Wait is two steps: the handle is popped     *)
(* and the wait begins; the wait returns.                                   *)
(***************************************************************************)
\* largest number of units spawned
MaxSpawned == 2
\* largest stack of the main unit when a value is pushed
MaxSpawnStack == 2

SpawnFns ==
  {i \in FnIds : \/ Functions[i].kind = "loop"
                 \/ Functions[i].kind = "user" /\ Functions[i].args = 1}

SpawnValues == {Num(0)} \cup {Fn(i) : i \in SpawnFns}

\* the function of a unit returns
terminates(f) == ~(f.t = "fn" /\ Functions[f.n].kind = "loop")

\* the main unit is inside Uiua::wait
waiting == query.op = "wait"

InitSpawn ==
  /\ stack = <<>>
  /\ last = NoLast
  /\ units = <<>>
  /\ query = NoCall
  /\ input = <<>>
  /\ next_tag = 0

PushSpawn ==
  /\ ~waiting
  /\ last.err.kind = "ok"
  /\ Len(stack) < MaxSpawnStack
  /\ \E v \in SpawnValues : stack' = Append(stack, v)
  /\ last' = NoLast
  /\ query' = NoCall
  /\ UNCHANGED <<input, next_tag, units>>

\* Primitive::run(Spawn)
ExecSpawn ==
  /\ ~waiting
  /\ last.err.kind = "ok"
  /\ Len(units) < MaxSpawned
  /\ \E sp \in Spans :
       LET r == run("Spawn", [env_of(stack, sp) EXCEPT !.threads = units])
       IN /\ stack' = r.stack
          /\ units' = r.threads
          /\ last' = last_of("Spawn", stack, r)
  /\ query' = NoCall
  /\ UNCHANGED <<input, next_tag>>

\* Primitive::run(Wait) up to the point where Uiua::wait blocks
WaitCall ==
  /\ ~waiting
  /\ last.err.kind = "ok"
  /\ \E sp \in Spans :
       LET e == env_of(stack, sp)
       IN IF stack = <<>>
          THEN /\ last' = last_of("Wait", stack, underflow(e))
               /\ query' = NoCall
               /\ stack' = stack
          ELSE IF top(e).t # "handle"
          THEN /\ last' = last_of("Wait", stack,
                                  [popped(e) EXCEPT !.err = ErrRun(MsgMismatch, sp)])
               /\ query' = NoCall
               /\ stack' = popped(e).stack
          ELSE /\ last' = [NoLast EXCEPT !.prim = "Wait", !.pre = stack, !.span = sp]
               /\ query' = [op |-> "wait",
                            res |-> [h |-> top(e).n, status |-> "waiting"]]
               /\ stack' = popped(e).stack
  /\ UNCHANGED <<input, next_tag, units>>

\* Uiua::wait returns and Primitive::run(Wait) with it
WaitReturn ==
  /\ waiting
  /\ LET e == [env_of(stack, last.span) EXCEPT !.threads = units]
         handle == Handle(query.res.h)
     IN /\ joinable(e, handle)
        /\ stack' = wait(e, handle).stack
        /\ last' = last_of("Wait", last.pre, wait(e, handle))
        /\ query' = [op |-> "joined",
                     res |-> [h |-> handle.n, status |-> units[handle.n].status]]
  /\ UNCHANGED <<input, next_tag, units>>

\* the spawned unit u runs its closure, env.call(f), to its end
UnitFinish(u) ==
  /\ u <= Len(units)
  /\ units[u].status = "running"
  /\ terminates(units[u].f)
  /\ \E sp \in Spans :
       LET r == call(units[u].f, env_of(units[u].stack, sp))
       IN units' = [units EXCEPT ![u].status = "finished",
                                 ![u].stack = r.stack,
                                 ![u].err = r.err]
  /\ UNCHANGED <<input, query, stack, last, next_tag>>

NextSpawn ==
  \/ PushSpawn
  \/ ExecSpawn
  \/ WaitCall
  \/ WaitReturn
  \/ \E u \in 1..MaxSpawned : UnitFinish(u)

SpecSpawn == InitSpawn /\ [][NextSpawn]_vars

\* a spawned thread is scheduled until its closure returns, and a join on a
\* finished thread returns
SpecSpawnFair ==
  /\ SpecSpawn
  /\ \A u \in 1..MaxSpawned : WF_vars(UnitFinish(u))
  /\ WF_vars(WaitReturn)

\* a Wait that has returned did so on a finished unit, with the unit's
\* results pushed on the waiter's stack or the unit's failure as its own
wait_returned_right ==
  query.op = "joined" =>
    LET unit == units[query.res.h]
    IN /\ query.res.status = "finished"
       /\ unit.status = "finished"
       /\ last.pre[Len(last.pre)] = Handle(query.res.h)
       /\ unit.err.kind = "ok" =>
            /\ last.err = Ok
            /\ stack = pre_below(1) \o unit.stack
       /\ unit.err.kind # "ok" =>
            /\ last.err = unit.err
            /\ stack = pre_below(1)

\* C17: a Wait on a handle of Spawn returns only when the spawned unit has
\* finished, with the unit's results pushed or with the unit's failure; and
\* every Wait on a unit whose function returns does return.
C17_Wait ==
  /\ []wait_returned_right
  /\ \A h \in 1..MaxSpawned :
       (waiting /\ query.res.h = h /\ terminates(units[h].f))
         ~> (query.op = "joined" /\ query.res.h = h)

C17_Witness ==
  /\ query.op = "joined"
  /\ Len(units) = 2
  /\ query.res.h = 2
  /\ units[2].err.kind = "run"
  /\ last.err = units[2].err
  /\ units[1].status = "running"

(***************************************************************************)
(* Inverse-pair specification: a program pushes values, runs a primitive    *)
(* that declares an inverse and then the primitive its inverse names.       *)
(***************************************************************************)
\* the stack-reordering primitives that declare an inverse
Reordering ==
  {p \in {"Identity", "Dup", "Flip", "Over", "Pop", "Roll", "Unroll"} :
     inverse(p) # None}

\* the primitives a pair starts with
PairRunnable == Reordering \cup {p \in {"Box", "Unbox"} : inverse(p) # None}

\* plain values, a function that is no constant and a constant function
PairValues == {Num(0), Num(1), Str(0), prim_fn("Flip"), constant(Num(0))}

\* an instruction that pushes a value
PushPair ==
  /\ last = NoLast
  /\ Len(stack) < MaxStack
  /\ \E v \in PairValues : stack' = Append(stack, v)
  /\ last' = NoLast
  /\ UNCHANGED <<input, query, next_tag, units>>

\* the first instruction of the pair: p
ExecFirst ==
  /\ query = NoCall
  /\ last = NoLast
  /\ \E p \in PairRunnable : \E sp \in Spans :
       LET r == run(p, env_of(stack, sp))
       IN /\ stack' = r.stack
          /\ last' = last_of(p, stack, r)
          /\ query' = [op |-> "first", res |-> <<[prim |-> p, pre |-> stack]>>]
  /\ UNCHANGED <<input, next_tag, units>>

\* the second instruction of the pair: inverse(p), run when p succeeded
ExecInverse ==
  /\ query.op = "first"
  /\ last.err.kind = "ok"
  /\ \E sp \in Spans :
       LET q == inverse(query.res[1].prim)[1]
           r == run(q, env_of(stack, sp))
       IN /\ stack' = r.stack
          /\ last' = last_of(q, stack, r)
          /\ query' = [query EXCEPT !.op = "inverse"]
  /\ UNCHANGED <<input, next_tag, units>>

NextPairs == PushPair \/ ExecFirst \/ ExecInverse

SpecPairs == Init /\ [][NextPairs]_vars

\* C23: after a stack-reordering primitive that declares an inverse has
\* run with success and its inverse has run next, the inverse has succeeded
\* and the stack is the one the pair started on.
C23_InversePair ==
  (query.op = "inverse" /\ query.res[1].prim \in Reordering) =>
    /\ last.prim = inverse(query.res[1].prim)[1]
    /\ last.err = Ok
    /\ stack = query.res[1].pre

\* Roll and then Unroll have run on four values whose top three differ
C23_Witness ==
  /\ query.op = "inverse"
  /\ query.res[1].prim = "Roll"
  /\ last.prim = "Unroll"
  /\ Len(stack) = 4
  /\ stack[4] # stack[3] /\ stack[3] # stack[2] /\ stack[4] # stack[2]
  /\ last.pre # stack
  /\ stack = query.res[1].pre

\* the stack the pair started on, its top value and the rest
pair_pre == query.res[1].pre
pair_top == pair_pre[Len(pair_pre)]
pair_rest == SubSeq(pair_pre, 1, Len(pair_pre) - 1)

\* whether a value is a constant function
is_constant(v) ==
  as_function(v) # None /\ function_as_constant(as_function(v)[1]) # None

\* what Unbox leaves of a value
unboxed(v) == IF is_constant(v) THEN function_as_constant(v)[1] ELSE v

\* C25: Box replaces the top value v by a constant function wrapping v and
\* Unbox replaces a constant function by the value it wraps and any other
\* value by itself; Box and then Unbox leave the stack as it was, and Unbox
\* and then Box leave it as it was only if the top value was a constant
\* function.
C25_BoxUnbox ==
  (query.op = "inverse" /\ query.res[1].prim \in {"Box", "Unbox"}) =>
    /\ last.err = Ok
    /\ query.res[1].prim = "Box" =>
         /\ last.pre = Append(pair_rest, constant(pair_top))
         /\ is_constant(last.pre[Len(last.pre)])
         /\ unboxed(last.pre[Len(last.pre)]) = pair_top
         /\ stack = pair_pre
    /\ query.res[1].prim = "Unbox" =>
         /\ last.pre = Append(pair_rest, unboxed(pair_top))
         /\ stack = Append(pair_rest, constant(unboxed(pair_top)))
         /\ stack = pair_pre => is_constant(pair_top)

\* Box and then Unbox have run on a function that is no constant
C25_Witness ==
  /\ query.op = "inverse"
  /\ query.res[1].prim = "Box"
  /\ last.prim = "Unbox"
  /\ Len(pair_pre) = 2
  /\ pair_top = prim_fn("Flip")
  /\ last.pre # pair_pre
  /\ stack = pair_pre

(***************************************************************************)
(* Constant specification: the front end asks a primitive for its constant  *)
(* value, and a program pushes plain values and runs constant primitives.   *)
(***************************************************************************)
\* largest stack a value is pushed on
MaxConstStack == 2

ConstValues == {Num(0), Str(0)}

\* the primitives whose arm pushes a number and nothing else
ConstRunnable == {"Eta", "Pi", "Tau", "Infinity"}

\* the front end asks a primitive for its constant value
AsConstant ==
  /\ query = NoCall
  /\ last = NoLast
  /\ stack = <<>>
  /\ \E p \in Primitives :
       /\ input' = <<p>>
       /\ query' = [op |-> "as_constant", res |-> as_constant(p)]
  /\ UNCHANGED <<stack, last, next_tag, units>>

\* an instruction that pushes a plain value
PushConst ==
  /\ last = NoLast
  /\ Len(stack) < MaxConstStack
  /\ \E v \in ConstValues : stack' = Append(stack, v)
  /\ last' = NoLast
  /\ UNCHANGED <<input, query, next_tag, units>>

\* an instruction that runs a constant primitive
ExecConst ==
  /\ last.err.kind = "ok"
  /\ Len(stack) <= MaxConstStack
  /\ \E p \in ConstRunnable : \E sp \in Spans :
       LET r == run(p, env_of(stack, sp))
       IN /\ stack' = r.stack
          /\ last' = last_of(p, stack, r)
  /\ UNCHANGED <<input, query, next_tag, units>>

NextConst == AsConstant \/ PushConst \/ ExecConst

SpecConst == Init /\ [][NextConst]_vars

\* C26: a primitive has a constant value exactly if it is Pi, Tau, Eta or
\* Infinity, and running one of these succeeds, pops nothing and pushes the
\* one number that is its constant value.
C26_AsConstant ==
  /\ query.op = "as_constant" =>
       (query.res # None <=> input[1] \in {"Pi", "Tau", "Eta", "Infinity"})
  /\ last.prim \in ConstRunnable =>
       /\ as_constant(last.prim) # None
       /\ last.err = Ok
       /\ last.log = <<>>
       /\ stack = Append(last.pre, Num(as_constant(last.prim)[1]))

\* Eta was asked for its constant value and then run on a stack of one value
C26_Witness ==
  /\ query.op = "as_constant"
  /\ input = <<"Eta">>
  /\ query.res # None
  /\ last.prim = "Eta"
  /\ Len(last.pre) = 1
  /\ stack = Append(last.pre, Num(query.res[1]))

(***************************************************************************)
(* Transpiler (transpile.rs): the emitted code is a sequence of characters, *)
(* a result is the transpiler with the outcome of the call in res.          *)
(***************************************************************************)
\* the transpiler after Transpiler::new
new == [code |-> <<>>, indentation |-> 0, res |-> "ok"]

spaces(n) == [i \in 1..n |-> " "]

\* str::ends_with('\n')
ends_with_newline(code) == code # <<>> /\ code[Len(code)] = "\n"

add(t, s) ==
  [t EXCEPT !.code =
     (IF ends_with_newline(@) THEN @ \o spaces(t.indentation * 4) ELSE @) \o s]

line(t, s) == [add(t, s) EXCEPT !.code = Append(@, "\n")]

\* the positions of the characters that are no space
non_spaces(code) == {i \in 1..Len(code) : code[i] # " "}

ensure_line(t) ==
  LET ends_with_newline_ ==
        IF non_spaces(t.code) = {} THEN TRUE
        ELSE t.code[CHOOSE i \in non_spaces(t.code) :
                      \A j \in non_spaces(t.code) : j <= i] = "\n"
  IN IF ~ends_with_newline_ THEN [t EXCEPT !.code = Append(@, "\n")] ELSE t

DigitChars == {"0", "1", "2", "3", "4", "5", "6", "7", "8", "9"}

digit_value(c) ==
  CASE c = "0" -> 0 [] c = "1" -> 1 [] c = "2" -> 2 [] c = "3" -> 3
    [] c = "4" -> 4 [] c = "5" -> 5 [] c = "6" -> 6 [] c = "7" -> 7
    [] c = "8" -> 8 [] c = "9" -> 9

\* the digits of u64::MAX
U64MaxDigits == <<"1", "8", "4", "4", "6", "7", "4", "4", "0", "7", "3", "7", "0", "9", "5", "5", "1", "6", "1", "5">>

RECURSIVE strip_zeros(_), digits_le(_, _)
\* a digit string without its leading zeros
strip_zeros(s) ==
  IF s # <<>> /\ Head(s) = "0" THEN strip_zeros(Tail(s)) ELSE s

\* a <= b for digit strings of the same length
digits_le(a, b) ==
  IF a = <<>> THEN TRUE
  ELSE IF digit_value(Head(a)) < digit_value(Head(b)) THEN TRUE
  ELSE IF digit_value(Head(a)) > digit_value(Head(b)) THEN FALSE
  ELSE digits_le(Tail(a), Tail(b))

\* str::parse::<u64>: the number, held as its decimal digits, or none for
\* an empty text, a character that is no digit or a number above u64::MAX
parse_u64(s) ==
  LET d == IF s # <<>> /\ Head(s) = "+" THEN Tail(s) ELSE s
      n == strip_zeros(d)
  IN IF d = <<>> \/ \E i \in 1..Len(d) : d[i] \notin DigitChars THEN None
     ELSE IF Len(n) > Len(U64MaxDigits) THEN None
     ELSE IF Len(n) = Len(U64MaxDigits) /\ ~digits_le(n, U64MaxDigits) THEN None
     ELSE Some(IF n = <<>> THEN <<"0">> ELSE n)

\* u64::to_string
to_string(n) == n

\* outcome of a call that failed
failed_with(t, error) == [t EXCEPT !.res = error]

RECURSIVE expr(_, _), expr_items(_, _, _)
\* the loop over the items of Expr::Tuple, from item number i on
expr_items(t, items, i) ==
  IF items = <<>> THEN t
  ELSE
    LET t1 == IF i > 0 THEN add(t, <<",", " ">>) ELSE t
        t2 == expr(t1, Head(items))
    IN IF t2.res # "ok" THEN t2 ELSE expr_items(t2, Tail(items), i + 1)

expr(t, e) ==
  CASE e.e = "Ident" -> add(t, e.v)
    [] e.e = "Tuple" ->
         LET t1 == expr_items(add(t, <<"{">>), e.items, 0)
         IN IF t1.res # "ok" THEN t1 ELSE add(t1, <<"}">>)
    [] e.e = "Integer" ->
         IF parse_u64(e.v) = None THEN failed_with(t, "InvalidInteger")
         ELSE add(t, to_string(parse_u64(e.v)[1]))

\* binding of a Pattern::Ident
binding(t, b) ==
  LET t1 == expr(add(t, <<"l", "o", "c", "a", "l", " ">> \o b.name \o <<" ", "=", " ">>), b.expr)
  IN IF t1.res # "ok" THEN t1 ELSE ensure_line(t1)

RECURSIVE params_loop(_, _, _), bindings_loop(_, _)
params_loop(t, params, i) ==
  IF params = <<>> THEN t
  ELSE params_loop(add(IF i > 0 THEN add(t, <<",", " ">>) ELSE t, Head(params)),
                   Tail(params), i + 1)

bindings_loop(t, bindings) ==
  IF bindings = <<>> THEN t
  ELSE
    LET t1 == binding(t, Head(bindings))
    IN IF t1.res # "ok" THEN t1 ELSE bindings_loop(t1, Tail(bindings))

\* the part of function_def after the bindings
function_def_ret(t, def) ==
  LET t1 == expr(add(t, <<"r", "e", "t", "u", "r", "n", " ">>), def.expr)
  IN IF t1.res # "ok" THEN t1
     ELSE line([ensure_line(t1) EXCEPT !.indentation = @ - 1], <<"e", "n", "d">>)

function_def_restoring(t, def) ==
  LET t1 == line(params_loop(add(t, <<"f", "u", "n", "c", "t", "i", "o", "n", " ">> \o def.name \o <<"(">>),
                             def.params, 0),
                 <<")">>)
      t2 == bindings_loop([t1 EXCEPT !.indentation = @ + 1], def.bindings)
  IN IF t2.res # "ok" THEN [t2 EXCEPT !.indentation = @ - 1]
     ELSE function_def_ret(t2, def)

function_def(t, def) ==
  LET t1 == line(params_loop(add(t, <<"f", "u", "n", "c", "t", "i", "o", "n", " ">> \o def.name \o <<"(">>),
                             def.params, 0),
                 <<")">>)
      t2 == bindings_loop([t1 EXCEPT !.indentation = @ + 1], def.bindings)
  IN IF t2.res # "ok" THEN t2 ELSE function_def_ret(t2, def)

item(t, it) ==
  CASE it.kind = "FunctionDef" -> function_def(t, it)
    [] it.kind = "Expr" -> expr(t, it.expr)
    [] it.kind = "Binding" -> binding(t, it)

(***************************************************************************)
(* Transpiler specification: transpile runs over the items the parser       *)
(* returned; input holds the items to come and query the transpiler, the    *)
(* errors and the record of the items done.                                 *)
(***************************************************************************)
\* largest number of items of a program
MaxItems == 3

Ident(v) == [e |-> "Ident", v |-> v, items |-> <<>>]
Integer(v) == [e |-> "Integer", v |-> v, items |-> <<>>]
Tuple(items) == [e |-> "Tuple", v |-> <<>>, items |-> items]

\* an integer literal above u64::MAX
TooLarge == Integer([i \in 1..21 |-> "9"])

FunctionDef(ident, params, bindings, ret) ==
  [kind |-> "FunctionDef", name |-> ident, params |-> params,
   bindings |-> bindings, expr |-> ret]

Binding(ident, e) ==
  [kind |-> "Binding", name |-> ident, params |-> <<>>, bindings |-> <<>>,
   expr |-> e]

ExprItem(e) ==
  [kind |-> "Expr", name |-> <<>>, params |-> <<>>, bindings |-> <<>>,
   expr |-> e]

\* the items programs are made of: function definitions that succeed, one
\* whose binding fails and one whose return expression fails, and
\* expressions and bindings that succeed or fail
Items ==
  { FunctionDef(<<"f">>, <<>>, <<>>, Ident(<<"x">>)),
    FunctionDef(<<"g">>, <<"a", "b">>, <<Binding(<<"y">>, Integer(<<"0", "7">>))>>,
                Tuple(<<Ident(<<"a">>), Ident(<<"y">>)>>)),
    FunctionDef(<<"h">>, <<"a">>, <<Binding(<<"y">>, TooLarge)>>, Ident(<<"y">>)),
    FunctionDef(<<"k">>, <<>>, <<>>, Tuple(<<Ident(<<"x">>), TooLarge>>)),
    ExprItem(Ident(<<"x">>)),
    ExprItem(TooLarge),
    Binding(<<"z">>, Ident(<<"x">>)),
    Binding(<<"z">>, TooLarge) }

Programs == UNION {[1..n -> Items] : n \in 0..MaxItems}

\* the errors the parser returned with the items
ParseErrors == {<<>>, <<"Parse">>}

InitTranspile ==
  /\ input \in Programs
  /\ \E errors \in ParseErrors :
       query = [op |-> "transpile",
                res |-> [t |-> new, errors |-> errors, parsed |-> errors,
                         done |-> <<>>]]
  /\ stack = <<>>
  /\ last = NoLast
  /\ next_tag = 0
  /\ units = <<>>

\* what one turn of the loop of transpile did
done_item(it, t, r) ==
  [item |-> it, before |-> t.indentation, after |-> r.indentation,
   res |-> r.res, from |-> Len(t.code) + 1, to |-> Len(r.code)]

\* one turn of the loop of transpile over the items
TranspileItem ==
  /\ query.op = "transpile"
  /\ input # <<>>
  /\ LET r == item(query.res.t, Head(input))
     IN query' = [query EXCEPT
                    !.res.t = [r EXCEPT !.res = "ok"],
                    !.res.errors = IF r.res # "ok" THEN Append(@, r.res) ELSE @,
                    !.res.done = Append(@, done_item(Head(input), query.res.t, r))]
  /\ input' = Tail(input)
  /\ UNCHANGED <<stack, last, next_tag, units>>

\* the return of transpile after the last item
TranspileReturn ==
  /\ query.op = "transpile"
  /\ input = <<>>
  /\ query' = [query EXCEPT
                 !.op = IF query.res.errors = <<>> THEN "Ok" ELSE "Err"]
  /\ UNCHANGED <<input, stack, last, next_tag, units>>

NextTranspile == TranspileItem \/ TranspileReturn

SpecTranspile == InitTranspile /\ [][NextTranspile]_vars

\* the items transpile has done
done == query.res.done

\* the number of function definitions that failed before item number j
failed_defs_before(j) ==
  Cardinality({i \in 1..(j - 1) :
                 done[i].item.kind = "FunctionDef" /\ done[i].res # "ok"})

\* the positions in the code of item number j at which a line starts
line_starts(j) ==
  {k \in done[j].from..done[j].to : k > 1 /\ query.res.t.code[k - 1] = "\n"}

\* the number of spaces from position k on
RECURSIVE indent_at(_)
indent_at(k) ==
  IF k <= Len(query.res.t.code) /\ query.res.t.code[k] = " "
  THEN 1 + indent_at(k + 1) ELSE 0

\* C27: a function definition leaves the indentation as it found it exactly
\* if it succeeds, and one level higher if a binding or the return
\* expression fails; transpile records the error and goes on, so every
\* later item is emitted with the indentation one level higher for each
\* function definition that failed before it, and every line started while
\* it is emitted is indented by that level (or one more, inside a function
\* body).
C27_Indentation ==
  query.op \in {"transpile", "Ok", "Err"} =>
    /\ Len(query.res.errors) =
         Len(query.res.parsed) + Cardinality({i \in 1..Len(done) : done[i].res # "ok"})
    /\ \A j \in 1..Len(done) :
         /\ done[j].item.kind = "FunctionDef" =>
              /\ done[j].after = done[j].before <=> done[j].res = "ok"
              /\ done[j].res # "ok" => done[j].after = done[j].before + 1
         /\ done[j].item.kind # "FunctionDef" => done[j].after = done[j].before
         /\ done[j].before = failed_defs_before(j)
         /\ \A k \in line_starts(j) :
              indent_at(k) \in
                IF done[j].item.kind = "FunctionDef"
                THEN {4 * done[j].before, 4 * (done[j].before + 1)}
                ELSE {4 * done[j].before}

\* a function definition failed, the next one succeeded one level deeper,
\* and a third item starts its line at indentation 1
C27_Witness ==
  /\ query.op = "Err"
  /\ Len(done) = 3
  /\ done[1].item.kind = "FunctionDef" /\ done[1].res # "ok"
  /\ done[2].item.kind = "FunctionDef" /\ done[2].res = "ok"
  /\ done[2].before = 1 /\ done[2].after = 1
  /\ \E k \in line_starts(2) : indent_at(k) = 8
  /\ done[3].from \in line_starts(3)
  /\ indent_at(done[3].from) = 4
  /\ query.res.t.indentation = 1

====
